---- MODULE Spec2Model ----
(***************************************************************************)
(* Calendar synchronisation of rentopia-api: CalendarSyncService (fetch,   *)
(* parse, guest-info extraction, per-event reconciliation, per-property    *)
(* and bulk sync) over the bookings and properties tables.                 *)
(*                                                                         *)
(* Text (summary, description, guest name, e-mail, phone) is a sequence of *)
(* one-character strings so that the string operations of the source       *)
(* (toLowerCase, includes, trim, the regular expressions) are computed.    *)
(* Dates and instants are integers; DayTicks of them make one day.         *)
(*                                                                         *)
(* Each async operation is a task that moves from one await to the next;   *)
(* every awaited call can resolve or reject.  Definitions described as a   *)
(* faulty variant (a lookup that finds nothing, a catch that leaves the    *)
(* loop, ...) are not used by the specifications: each of the properties   *)
(* at the end fails when the definition that follows one is replaced by it.*)
(***************************************************************************)
EXTENDS Integers, Sequences, FiniteSets, TLC

NULL == "NULL"

\* an absent text value (undefined, null and "" are all falsy in the source
\* and are stored alike)
NoText == <<>>

(***************************************************************************)
(* Characters and strings.                                                 *)
(***************************************************************************)
LowerChars ==
  <<"a","b","c","d","e","f","g","h","i","j","k","l","m",
    "n","o","p","q","r","s","t","u","v","w","x","y","z">>

UpperChars ==
  <<"A","B","C","D","E","F","G","H","I","J","K","L","M",
    "N","O","P","Q","R","S","T","U","V","W","X","Y","Z">>

DigitChars == <<"0","1","2","3","4","5","6","7","8","9">>

Range(s) == {s[i] : i \in DOMAIN s}

IndexIn(c, s) == CHOOSE i \in DOMAIN s : s[i] = c

IsUpper(c) == c \in Range(UpperChars)
LetterSet == Range(LowerChars) \cup Range(UpperChars)
DigitSet == Range(DigitChars)
SpaceSet == {" ", "\t"}
IsDigit(c) == c \in DigitSet
IsSpace(c) == c \in SpaceSet

DigitVal(c) == IndexIn(c, DigitChars) - 1

LowerChar(c) == IF IsUpper(c) THEN LowerChars[IndexIn(c, UpperChars)] ELSE c

\* String.prototype.toLowerCase
ToLowerCase(s) == [i \in DOMAIN s |-> LowerChar(s[i])]

\* pat occurs in s at position i
MatchesAt(s, pat, i) ==
  /\ i >= 1
  /\ i + Len(pat) - 1 <= Len(s)
  /\ \A k \in 1..Len(pat) : s[i + k - 1] = pat[k]

\* String.prototype.includes
Includes(s, pat) == \E i \in 1..(Len(s) + 1) : MatchesAt(s, pat, i)

\* String.prototype.trim
Trim(s) ==
  LET keep == {i \in DOMAIN s : ~IsSpace(s[i])}
  IN  IF keep = {} THEN <<>>
      ELSE LET a == CHOOSE i \in keep : \A j \in keep : i <= j
               b == CHOOSE i \in keep : \A j \in keep : i >= j
           IN  SubSeq(s, a, b)

\* the index just after the longest run, starting at i, of characters
\* of the class cls
RunEnd(s, i, cls) ==
  LET stops == {j \in i..Len(s) : s[j] \notin cls}
  IN  IF i > Len(s) THEN i
      ELSE IF stops = {} THEN Len(s) + 1
      ELSE CHOOSE j \in stops : \A k \in stops : j <= k

\* parseInt(digits, 10) of a run of digits
RECURSIVE ParseInt(_)
ParseInt(ds) ==
  IF ds = <<>> THEN 0
  ELSE 10 * ParseInt(SubSeq(ds, 1, Len(ds) - 1)) + DigitVal(ds[Len(ds)])

Max(a, b) == IF a >= b THEN a ELSE b
Min(a, b) == IF a <= b THEN a ELSE b

KwClosed == <<"c","l","o","s","e","d">>
KwBlocked == <<"b","l","o","c","k","e","d">>
KwUnavailable == <<"u","n","a","v","a","i","l","a","b","l","e">>
KwNotAvailable == <<"n","o","t"," ","a","v","a","i","l","a","b","l","e">>
KwGuest == <<"g","u","e","s","t">>
KwPhone == <<"p","h","o","n","e">>
KwTel == <<"t","e","l">>
KwMobile == <<"m","o","b","i","l","e">>

NameCalendarReservation ==
  <<"C","a","l","e","n","d","a","r"," ",
    "R","e","s","e","r","v","a","t","i","o","n">>

NameBlockedPeriod ==
  <<"B","l","o","c","k","e","d"," ","P","e","r","i","o","d"," ","-"," ",
    "P","l","e","a","s","e"," ","U","p","d","a","t","e">>

SuffixPleaseUpdate ==
  <<" ","-"," ","P","l","e","a","s","e"," ","U","p","d","a","t","e">>

SummaryBooking == <<"B","o","o","k","i","n","g">>

NameMaxLen == 50

\* the closure-keyword test of extractGuestInfo
\* a closure check that compares the summary as it is written
IsClosureSummaryCaseSensitive(summary) ==
  \/ Includes(summary, KwClosed)
  \/ Includes(summary, KwBlocked)
  \/ Includes(summary, KwUnavailable)
  \/ summary = KwClosed
  \/ Includes(summary, KwNotAvailable)

IsClosureSummary(summary) ==
  LET low == ToLowerCase(summary)
  IN  \/ Includes(low, KwClosed)
      \/ Includes(low, KwBlocked)
      \/ Includes(low, KwUnavailable)
      \/ low = KwClosed
      \/ Includes(low, KwNotAvailable)

\* /^([A-Za-z\s]{2,50})(?:\s*-|\s*\(|$)/ : the lengths n of the group for
\* which the rest of the pattern matches
NameGroupLens(s) ==
  LET NameCharSet == LetterSet \cup SpaceSet
      runLen == RunEnd(s, 1, NameCharSet) - 1
      TailOk(n) ==
        LET j == RunEnd(s, n + 1, SpaceSet)
        IN  \/ n = Len(s)
            \/ (j <= Len(s) /\ s[j] \in {"-", "("})
  IN  {n \in 2..Min(runLen, NameMaxLen) : TailOk(n)}

\* the first capture group of the name pattern, or NoText when it does not
\* match (the quantifier is greedy: the longest group wins)
NameMatch(s) ==
  LET lens == NameGroupLens(s)
  IN  IF lens = {} THEN NoText
      ELSE SubSeq(s, 1, CHOOSE n \in lens : \A m \in lens : m <= n)

\* /(\d+)\s*guests?/i : the start positions of a match
GuestMatchStarts(s) ==
  LET low == ToLowerCase(s)
  IN  {i \in DOMAIN s :
         /\ IsDigit(s[i])
         /\ MatchesAt(low, KwGuest,
                      RunEnd(s, RunEnd(s, i, DigitSet), SpaceSet))}

\* the first capture group (the digits) of the leftmost match, or NoText
GuestMatch(s) ==
  LET starts == GuestMatchStarts(s)
  IN  IF starts = {} THEN NoText
      ELSE LET i == CHOOSE a \in starts : \A b \in starts : a <= b
           IN  SubSeq(s, i, RunEnd(s, i, DigitSet) - 1)

EmailLocalSet == LetterSet \cup DigitSet \cup {".", "_", "%", "+", "-"}
EmailDomainSet == LetterSet \cup DigitSet \cup {".", "-"}

\* /([a-zA-Z0-9._%+-]+@[a-zA-Z0-9.-]+\.[a-zA-Z]{2,})/ starting at i: the
\* end position of the match, or 0
EmailEndAt(s, i) ==
  LET at == RunEnd(s, i, EmailLocalSet)
      domEnd == RunEnd(s, at + 1, EmailDomainSet)
      dots == {d \in (at + 2)..(domEnd - 1) :
                 /\ s[d] = "."
                 /\ RunEnd(s, d + 1, LetterSet) - (d + 1) >= 2}
  IN  IF at > i /\ at <= Len(s) /\ s[at] = "@" /\ dots # {}
      THEN RunEnd(s, (CHOOSE d \in dots : \A e \in dots : e <= d) + 1, LetterSet) - 1
      ELSE 0

EmailMatch(s) ==
  LET starts == {i \in DOMAIN s : EmailEndAt(s, i) > 0}
  IN  IF starts = {} THEN NoText
      ELSE LET i == CHOOSE a \in starts : \A b \in starts : a <= b
           IN  SubSeq(s, i, EmailEndAt(s, i))

PhoneSet == DigitSet \cup SpaceSet \cup {"+", "-", "(", ")"}

\* /(?:phone|tel|mobile):\s*([+\d\s\-\(\)]+)/i : the capture group of the
\* match whose keyword starts at i, or NoText
PhoneGroupAt(s, i) ==
  LET low == ToLowerCase(s)
      kws == {kw \in {KwPhone, KwTel, KwMobile} : MatchesAt(low, kw, i)}
      \* the alternatives are tried in order; none is a prefix of another
      kw == CHOOSE k \in kws : TRUE
      colon == i + Len(kw)
      spEnd == RunEnd(s, colon + 1, SpaceSet)
      grpEnd == RunEnd(s, colon + 1, PhoneSet)
  IN  IF kws = {} \/ colon > Len(s) \/ s[colon] # ":" \/ grpEnd = colon + 1
      THEN NoText
      ELSE IF spEnd < grpEnd
           THEN SubSeq(s, spEnd, grpEnd - 1)
           \* only white space follows the colon: \s* gives back its last
           \* character to the group
           ELSE SubSeq(s, grpEnd - 1, grpEnd - 1)

PhoneMatch(s) ==
  LET starts == {i \in DOMAIN s : PhoneGroupAt(s, i) # NoText}
  IN  IF starts = {} THEN NoText
      ELSE PhoneGroupAt(s, CHOOSE a \in starts : \A b \in starts : a <= b)

(***************************************************************************)
(* extractGuestInfo: CalendarEvent -> {name, email, phone, guests,         *)
(* isPlaceholder}.                                                         *)
(***************************************************************************)
extractGuestInfo(event) ==
  LET summary == event.summary
      cleanSummary == Trim(summary)
      nameMatch == NameMatch(cleanSummary)
      accepted ==
        /\ nameMatch # NoText
        /\ ~Includes(ToLowerCase(nameMatch), KwClosed)
        /\ ~Includes(ToLowerCase(nameMatch), KwBlocked)
        /\ ~Includes(ToLowerCase(nameMatch), KwUnavailable)
      guestMatch == GuestMatch(summary)
      email == IF event.description # NoText
               THEN EmailMatch(event.description) ELSE NoText
      phone == IF event.description # NoText
               THEN Trim(PhoneMatch(event.description)) ELSE NoText
  IN  IF summary # NoText /\ IsClosureSummary(summary)
      THEN [name |-> NameBlockedPeriod, email |-> email, phone |-> phone,
            guests |-> 1, isPlaceholder |-> TRUE]
      ELSE IF summary # NoText
      THEN [name |-> IF accepted THEN Trim(nameMatch)
                     ELSE cleanSummary \o SuffixPleaseUpdate,
            email |-> email, phone |-> phone,
            guests |-> IF guestMatch # NoText
                       THEN Max(1, ParseInt(guestMatch)) ELSE 1,
            isPlaceholder |-> ~accepted]
      ELSE [name |-> NameCalendarReservation, email |-> email,
            phone |-> phone, guests |-> 1, isPlaceholder |-> TRUE]

(***************************************************************************)
(* Bounds of the model.                                                    *)
(***************************************************************************)
\* the longest calendar body (entries) a fetch returns
MaxEntries == 2
\* the work of the sync operations: passes started (one property each) plus
\* events of the calendars fetched (a calendar fetched again adds none)
MaxOps == 4
\* writes through the bookings and settings routes
MaxApiWrites == 1
\* rejected persistence calls and failed downloads
MaxFaults == 1

\* instants per day (1000 * 60 * 60 * 24 ms in the source)
DayTicks == 2

(***************************************************************************)
(* The world: properties, calendar URLs, calendar bodies.                  *)
(***************************************************************************)
\* rows of the properties table
Props == {"p1", "p2"}
\* property ids a request can carry; "p0" is no row
PropIds == Props \cup {"p0"}
Urls == {"urlA"}

NoDate == 0 - 1
NoUid == ""

TxtJoTwoGuests == <<"J","o"," ","-"," ","2"," ","g","u","e","s","t","s">>
TxtClosed == <<"C","L","O","S","E","D">>
TxtAl == <<"A","l">>
TxtMail == <<"a","@","b",".","c","o">>

\* entries of a fetched calendar, as node-ical returns them
EntryJo ==
  [type |-> "VEVENT", uid |-> "u1", summary |-> TxtJoTwoGuests,
   description |-> TxtMail, start |-> 0, end |-> 3]
EntryClosed ==
  [type |-> "VEVENT", uid |-> "u2", summary |-> TxtClosed,
   description |-> NoText, start |-> 2, end |-> 3]
EntryBackwards ==
  [type |-> "VEVENT", uid |-> "u1", summary |-> TxtAl,
   description |-> NoText, start |-> 3, end |-> 3]
EntryNoUid ==
  [type |-> "VEVENT", uid |-> NoUid, summary |-> TxtAl,
   description |-> NoText, start |-> 0, end |-> 1]
EntryTimezone ==
  [type |-> "VTIMEZONE", uid |-> NoUid, summary |-> NoText,
   description |-> NoText, start |-> NoDate, end |-> NoDate]

Entries ==
  {EntryJo, EntryClosed, EntryBackwards,
   EntryNoUid, EntryTimezone}

SeqsUpTo(S, n) == UNION {[1..k -> S] : k \in 0..n}

\* bodies a fetch can return
Bodies == SeqsUpTo(Entries, MaxEntries)

\* response.data of a 200 response: calendar text (it has the
\* BEGIN:VCALENDAR line) with its components, or text that is not calendar
\* data (an HTML page, say), in which ical.parseICS finds no component
Responses ==
  {[marker |-> TRUE, entries |-> b] : b \in Bodies}
    \cup {[marker |-> FALSE, entries |-> <<>>]}

(***************************************************************************)
(* ical.parseICS keeps the components of a calendar in an object under     *)
(* their UID (a component without UID goes under a fresh key): a later     *)
(* component with a UID already seen overwrites the fields it carries, and *)
(* the for-in loop of parseICalData meets the keys in order of first       *)
(* appearance.                                                             *)
(***************************************************************************)
MergeEntry(old, new) ==
  [type |-> new.type,
   uid |-> old.uid,
   summary |-> IF new.summary # NoText THEN new.summary ELSE old.summary,
   description |-> IF new.description # NoText THEN new.description
                   ELSE old.description,
   start |-> IF new.start # NoDate THEN new.start ELSE old.start,
   end |-> IF new.end # NoDate THEN new.end ELSE old.end]

RECURSIVE parseICSInto(_, _)
parseICSInto(parsed, body) ==
  IF body = <<>> THEN parsed
  ELSE LET entry == Head(body)
           seen == {i \in DOMAIN parsed :
                      entry.uid # NoUid /\ parsed[i].uid = entry.uid}
       IN  IF seen = {}
           THEN parseICSInto(Append(parsed, entry), Tail(body))
           ELSE parseICSInto(
                  [parsed EXCEPT ![CHOOSE i \in seen : TRUE] =
                     MergeEntry(@, entry)],
                  Tail(body))

parseICS(body) == parseICSInto(<<>>, body)

\* two entries of a body carry the same UID
RepeatsUid(body) ==
  \E i, j \in DOMAIN body :
    i # j /\ body[i].uid # NoUid /\ body[i].uid = body[j].uid

(***************************************************************************)
(* parseICalData: the VEVENT entries that have uid, start and end.         *)
(***************************************************************************)
ParseEntry(vevent) ==
  [uid |-> vevent.uid,
   summary |-> IF vevent.summary # NoText THEN vevent.summary
               ELSE SummaryBooking,
   description |-> vevent.description,
   start |-> vevent.start,
   end |-> vevent.end]

\* a parser that asks for the uid only
IsUsableEntryWithUid(entry) ==
  /\ entry.type = "VEVENT"
  /\ entry.uid # NoUid

IsUsableEntry(entry) ==
  /\ entry.type = "VEVENT"
  /\ ~(entry.uid = NoUid \/ entry.start = NoDate \/ entry.end = NoDate)

RECURSIVE EventsOf(_)
EventsOf(parsed) ==
  IF parsed = <<>> THEN <<>>
  ELSE IF IsUsableEntry(Head(parsed))
       THEN <<ParseEntry(Head(parsed))>> \o EventsOf(Tail(parsed))
       ELSE EventsOf(Tail(parsed))

parseICalData(icalData) == EventsOf(parseICS(icalData))

(***************************************************************************)
(* Bookings.  The bookings table is a sequence; a row's id is its index,   *)
(* and rows are never removed by the operations modelled here.             *)
(***************************************************************************)
NotePlaceholder ==
  "[PLACEHOLDER] Calendar blocked date - imported from calendar sync on"
NoteImported == "Imported from calendar sync on"
NoteUpdated == "Updated from calendar sync on"

\* Math.ceil(a / d) for d > 0
Ceil(a, d) == 0 - ((0 - a) \div d)

\* nights counted with both the first and the last day
NightsInclusive(event) == Ceil(event.end - event.start, DayTicks) + 1

\* nights of processCalendarEvent
Nights(event) == Ceil(event.end - event.start, DayTicks)

\* a lookup that finds nothing
MatchingIdsStale(db, propertyId, uid) == {}

\* a lookup by property alone
MatchingIdsAnyUid(db, propertyId, uid) ==
  {id \in DOMAIN db : db[id].propertyId = propertyId}

\* a lookup by property_id alone
MatchingIdsOfProperty(db, propertyId, uid) ==
  {id \in DOMAIN db : db[id].propertyId = propertyId}

\* a lookup by external_id alone
MatchingIdsAnyProperty(db, propertyId, uid) ==
  {id \in DOMAIN db : db[id].externalId = uid}

\* SELECT id FROM bookings WHERE property_id = .. AND external_id = ..
MatchingIds(db, propertyId, uid) ==
  {id \in DOMAIN db :
     db[id].propertyId = propertyId /\ db[id].externalId = uid}

\* a lookup whose answer is not used
ExistingBookingNone(matches) == {0}

\* existingBookings.length > 0 ? existingBookings[0] : null, with 0 for null:
\* the rows come back in no stated order, so any of them can be the first
ExistingBooking(matches) == IF matches = {} THEN {0} ELSE matches

\* a note that ignores the placeholder flag
CreateNoteImported(guestInfo) == NoteImported

\* the text of internalNotes of a new booking, before its timestamp
CreateNote(guestInfo) ==
  IF guestInfo.isPlaceholder THEN NotePlaceholder ELSE NoteImported

\* the row written by prisma.booking.create in processCalendarEvent
NewBooking(propertyId, event, at) ==
  LET guestInfo == extractGuestInfo(event)
  IN  [propertyId |-> propertyId,
       guestName |-> guestInfo.name,
       guestEmail |-> guestInfo.email,
       guestPhone |-> guestInfo.phone,
       numberOfGuests |-> guestInfo.guests,
       checkInDate |-> event.start,
       checkOutDate |-> event.end,
       nightsCount |-> Nights(event),
       baseAmount |-> 0,
       cleaningFee |-> 0,
       taxes |-> 0,
       totalAmount |-> 0,
       securityDeposit |-> 0,
       bookingStatus |-> "pending",
       paymentStatus |-> "pending",
       bookingSource |-> "booking.com",
       externalId |-> event.uid,
       specialRequests |-> event.description,
       internalNotes |-> <<CreateNote(guestInfo), at>>,
       updatedAt |-> at]

\* an update that writes the row afresh
UpdatedBookingAsNew(row, event, at) == NewBooking(row.propertyId, event, at)

\* the row after the UPDATE bookings SET .. of processCalendarEvent
UpdatedBooking(row, event, at) ==
  LET guestInfo == extractGuestInfo(event)
  IN  [row EXCEPT
         !.guestName = guestInfo.name,
         !.guestEmail = guestInfo.email,
         !.guestPhone = guestInfo.phone,
         !.numberOfGuests = guestInfo.guests,
         !.checkInDate = event.start,
         !.checkOutDate = event.end,
         !.nightsCount = Nights(event),
         !.specialRequests = event.description,
         !.internalNotes = <<NoteUpdated, at>>,
         !.updatedAt = at]

(***************************************************************************)
(* SyncResult.                                                             *)
(***************************************************************************)
NewResult ==
  [success |-> FALSE, message |-> <<>>, bookingsCreated |-> 0,
   bookingsUpdated |-> 0, bookingsSkipped |-> 0, errors |-> <<>>]

ErrInvalidRange(uid) == <<"Invalid date range for event", uid>>
ErrProcessing(uid) == <<"Error processing event", uid>>
ErrSyncFailed(cause) == <<"Sync failed", cause>>
ErrNotFound == <<"Property not found">>
ErrNotEnabled == <<"Calendar sync is not enabled for this property">>
ErrMessage(cause) == <<cause>>

PushError(result, err) == [result EXCEPT !.errors = Append(@, err)]

\* a pass that reports success whatever it recorded
CompletedAsSuccess(result) ==
  [result EXCEPT
     !.success = TRUE,
     !.message = <<"Sync completed successfully", result.bookingsCreated,
                   result.bookingsUpdated, result.bookingsSkipped>>]

\* lines 274-277: success and message once the pass is over
Completed(result) ==
  LET ok == result.errors = <<>>
  IN  [result EXCEPT
         !.success = ok,
         !.message =
           IF ok
           THEN <<"Sync completed successfully", result.bookingsCreated,
                  result.bookingsUpdated, result.bookingsSkipped>>
           ELSE <<"Sync completed with errors", Len(result.errors)>>]

(***************************************************************************)
(* State.                                                                  *)
(***************************************************************************)
\* the sync operations that can be in progress together
Tasks == {"t1", "t2"}

VARIABLES
  properties,  \* properties table: icalUrl, syncEnabled, lastSyncAt per row
  bookings,    \* bookings table
  tasks,       \* the sync operations in progress
  ops,         \* passes started and calendar events fetched so far
  apiWrites,   \* writes through the bookings and settings routes so far
  faults,      \* rejected persistence calls and failed downloads so far
  scheduler,   \* the static fields of CalendarScheduler and its cron tasks
  probe        \* a call of a pure function: its argument and what it returned

vars ==
  <<properties, bookings, tasks, ops, apiWrites, faults, scheduler, probe>>

\* the identity of every row of a bookings table: property and externalId
\* by id
Keys(db) ==
  [id \in DOMAIN db |->
     [propertyId |-> db[id].propertyId, externalId |-> db[id].externalId]]

NoPass ==
  [prop |-> NULL, events |-> <<>>, keys |-> <<>>, trace |-> <<>>,
   fetched |-> FALSE]

\* a task: the entry point called (op), the await it is suspended at (pc),
\* the locals of syncPropertyCalendar(WithUrl) and of syncAllProperties, the
\* outcome handed to the caller (result/results or threw), and history
\* (fetched, marker: the body fetched had the BEGIN:VCALENDAR line, repeats:
\* it had a UID twice, trace, log, keysStart, prev: the pass this one
\* repeats, seen: the number of bookings when the last lookup ran)
\* no testCalendarUrl outcome
NoTest == [valid |-> FALSE, eventCount |-> 0, error |-> NoText]

IdleTask ==
  [op |-> "idle", pc |-> "idle", prop |-> NULL, url |-> NULL,
   events |-> <<>>, idx |-> 0, existing |-> 0, result |-> NewResult,
   queue |-> <<>>, results |-> <<>>, threw |-> FALSE,
   fetched |-> FALSE, marker |-> TRUE, repeats |-> FALSE, trace |-> <<>>,
   log |-> <<>>,
   keysStart |-> <<>>, prev |-> NoPass, seen |-> 0, by |-> "api",
   test |-> NoTest]

\* CalendarScheduler before start(): not running, no cron task.  cronTasks
\* counts the cron tasks created, armed holds those started and not stopped,
\* task is the one this.task refers to (0: null); lastCall, stopCalled,
\* initialSyncs and initialThrew are history: the last of start() and stop()
\* called, whether stop() was ever called, the initial sync passes begun,
\* and whether the initial pass of the start() that armed last had thrown
SchedulerStopped ==
  [isRunning |-> FALSE, task |-> 0, cronTasks |-> 0, armed |-> {},
   lastCall |-> "none", stopCalled |-> FALSE, initialSyncs |-> 0,
   initialThrew |-> FALSE]

\* no pure function under test
NoProbe == [fn |-> "none", arg |-> <<>>, out |-> <<>>, called |-> FALSE]

Init ==
  /\ properties =
       [p \in Props |->
          [icalUrl |-> IF p = "p1" THEN "urlA" ELSE NULL,
           syncEnabled |-> (p = "p1"),
           lastSyncAt |-> NoDate]]
  /\ bookings = <<>>
  /\ tasks = [t \in Tasks |-> IdleTask]
  /\ ops = 0
  /\ apiWrites = 0
  /\ faults = 0
  /\ scheduler = SchedulerStopped
  /\ probe = NoProbe

\* what NOW() and new Date() return: the clock counts the work done so far,
\* so the writes of one sync pass carry one instant and a later pass reads a
\* later one
Instants == {ops + apiWrites}

\* an awaited call resolves (ok) or rejects
Outcome(ok) ==
  /\ ~ok => faults < MaxFaults
  /\ faults' = IF ok THEN faults ELSE faults + 1

AllIdle == \A t \in Tasks : tasks[t].op = "idle"

\* what the pass of task k leaves in the history
PassOf(k, db) ==
  [prop |-> k.prop, events |-> k.events, keys |-> Keys(db),
   trace |-> k.trace, fetched |-> k.fetched]

\* a bulk sync that stops after its first property
ReturnedStopping(k, res) ==
  IF k.op = "all"
  THEN [k EXCEPT !.pc = "done", !.result = res,
                 !.results = Append(k.results, res),
                 !.log = Append(k.log, PassOf(k, <<>>))]
  ELSE [k EXCEPT !.pc = "done", !.result = res]

\* syncPropertyCalendar / syncPropertyCalendarWithUrl return res: to the
\* caller of the operation, or to the loop of syncAllProperties, which
\* pushes it and calls syncPropertyCalendar for the next property
Returned(k, res) ==
  IF k.op = "all"
  THEN LET rs == Append(k.results, res)
           lg == Append(k.log, PassOf(k, <<>>))
       IN  IF k.queue = <<>>
           THEN [k EXCEPT !.pc = "done", !.result = res, !.results = rs,
                          !.log = lg]
           ELSE [k EXCEPT !.pc = "s_prop", !.prop = Head(k.queue),
                          !.queue = Tail(k.queue), !.url = NULL,
                          !.events = <<>>, !.idx = 0, !.existing = 0,
                          !.result = NewResult, !.fetched = FALSE,
                          !.marker = TRUE, !.repeats = FALSE,
                          !.trace = <<>>, !.results = rs, !.log = lg]
  ELSE [k EXCEPT !.pc = "done", !.result = res]

\* the for loop of syncPropertyCalendarWithUrl moves to the next event, or
\* leaves the loop and issues the UPDATE of last_sync_at
NextEvent(k) ==
  IF k.idx < Len(k.events)
  THEN [k EXCEPT !.pc = "u_lookup", !.idx = k.idx + 1, !.existing = 0]
  ELSE [k EXCEPT !.pc = "u_stamp", !.existing = 0]

\* a catch that records the error and leaves the loop
CaughtAborts(k, uid) ==
  [k EXCEPT !.result = PushError(@, ErrProcessing(uid)),
            !.trace = Append(@, "threw"),
            !.pc = "u_stamp", !.existing = 0]

\* a catch that only logs and goes on
CaughtUnrecorded(k, uid) ==
  NextEvent([k EXCEPT !.trace = Append(@, "threw")])

\* the catch of lines 259-264: the error is recorded with the event's uid
\* and the loop goes on
Caught(k, uid) ==
  NextEvent([k EXCEPT !.result = PushError(@, ErrProcessing(uid)),
                      !.trace = Append(@, "threw")])

(***************************************************************************)
(* Entry points.                                                           *)
(***************************************************************************)
\* POST /sync/:propertyId -> syncPropertyCalendarWithUrl(propertyId, icalUrl)
StartSyncWithUrl(t, propertyId, icalUrl) ==
  /\ tasks[t].op = "idle"
  /\ ops < MaxOps
  /\ tasks' = [tasks EXCEPT ![t] =
       [IdleTask EXCEPT !.op = "url", !.pc = "u_prop", !.prop = propertyId,
                        !.url = icalUrl, !.keysStart = Keys(bookings)]]
  /\ ops' = ops + 1
  /\ UNCHANGED <<properties, bookings, apiWrites, faults, scheduler, probe>>

\* the caller of a finished syncPropertyCalendarWithUrl that fetched a
\* calendar calls it again with the same arguments; the calendar behind the
\* URL has not changed, and nothing else has written in between
SyncAgain(t) ==
  LET k == tasks[t]
  IN  /\ k.pc = "done"
      /\ k.op = "url"
      /\ k.fetched
      /\ k.prev = NoPass
      /\ ops < MaxOps
      /\ tasks' = [tasks EXCEPT ![t] =
           [IdleTask EXCEPT !.op = "url", !.pc = "u_prop", !.prop = k.prop,
                            !.url = k.url, !.keysStart = Keys(bookings),
                            !.prev = PassOf(k, bookings)]]
      /\ ops' = ops + 1
      /\ UNCHANGED <<properties, bookings, apiWrites, faults, scheduler, probe>>

\* syncPropertyCalendar(propertyId)
StartSyncStored(t, propertyId) ==
  /\ tasks[t].op = "idle"
  /\ ops < MaxOps
  /\ tasks' = [tasks EXCEPT ![t] =
       [IdleTask EXCEPT !.op = "stored", !.pc = "s_prop",
                        !.prop = propertyId, !.keysStart = Keys(bookings)]]
  /\ ops' = ops + 1
  /\ UNCHANGED <<properties, bookings, apiWrites, faults, scheduler, probe>>

\* the rows the SELECT of syncAllProperties returns
SyncEnabled ==
  {p \in Props : properties[p].syncEnabled /\ properties[p].icalUrl # NULL}

\* syncAllProperties()
StartSyncAll(t) ==
  /\ tasks[t].op = "idle"
  /\ ops + Max(1, Cardinality(SyncEnabled)) <= MaxOps
  /\ tasks' = [tasks EXCEPT ![t] =
       [IdleTask EXCEPT !.op = "all", !.pc = "a_select",
                        !.keysStart = Keys(bookings)]]
  /\ ops' = ops + Max(1, Cardinality(SyncEnabled))
  /\ UNCHANGED <<properties, bookings, apiWrites, faults, scheduler, probe>>

(***************************************************************************)
(* syncPropertyCalendar: the stored-settings pre-check.                    *)
(***************************************************************************)
\* a check of the URL alone
IsSyncConfiguredUrlOnly(row) == row.icalUrl # NULL

\* line 198: sync_enabled and ical_url of the row
IsSyncConfigured(row) == row.syncEnabled /\ row.icalUrl # NULL

\* the SELECT of lines 179-189 resolves (or rejects) and the checks of
\* lines 191-203 run
QueryStoredProperty(t) ==
  LET k == tasks[t]
  IN  /\ k.pc = "s_prop"
      /\ \E dbOk \in BOOLEAN : Outcome(dbOk) /\
           LET found == k.prop \in Props
               enabled == found /\ IsSyncConfigured(properties[k.prop])
               res == IF ~dbOk THEN PushError(k.result, ErrMessage("db"))
                      ELSE IF ~found THEN PushError(k.result, ErrNotFound)
                      ELSE PushError(k.result, ErrNotEnabled)
           IN  IF dbOk /\ enabled
               THEN /\ tasks' = [tasks EXCEPT ![t] =
                         [k EXCEPT !.pc = "u_prop",
                                   !.url = properties[k.prop].icalUrl,
                                   !.result = NewResult]]
               ELSE /\ tasks' = [tasks EXCEPT ![t] = Returned(k, res)]
      /\ UNCHANGED <<properties, bookings, ops, apiWrites, scheduler, probe>>

(***************************************************************************)
(* syncPropertyCalendarWithUrl.                                            *)
(***************************************************************************)
\* the SELECT of lines 229-233 resolves (or rejects); lines 235-244
QueryProperty(t) ==
  LET k == tasks[t]
  IN  /\ k.pc = "u_prop"
      /\ \E dbOk \in BOOLEAN : Outcome(dbOk) /\
           IF dbOk /\ k.prop \in Props
           THEN /\ tasks' = [tasks EXCEPT ![t] = [k EXCEPT !.pc = "u_fetch"]]
           ELSE /\ tasks' = [tasks EXCEPT ![t] =
                     Returned(k, PushError(k.result,
                        IF dbOk THEN ErrNotFound ELSE ErrSyncFailed("db")))]
      /\ UNCHANGED <<properties, bookings, ops, apiWrites, scheduler, probe>>

\* what axios.get and parseICS can do: a body, or an error
FetchFailures == {"network", "status", "parse"}

\* downloadICalData(icalUrl) resolves with the parsed events or rejects
Download(t) ==
  LET k == tasks[t]
  IN  /\ k.pc = "u_fetch"
      /\ \E outcome \in FetchFailures \cup {"body"} : Outcome(outcome = "body") /\
           IF outcome = "body"
           THEN /\ \E data \in Responses :
                     LET body == data.entries
                         events == parseICalData(body)
                         fresh == IF k.prev = NoPass THEN Len(events) ELSE 0
                     IN  /\ k.prev # NoPass => events = k.prev.events
                         /\ ops + fresh <= MaxOps
                         /\ ops' = ops + fresh
                         /\ tasks' = [tasks EXCEPT ![t] =
                           [k EXCEPT !.events = events, !.fetched = TRUE,
                                     !.marker = data.marker,
                                     !.repeats = RepeatsUid(body),
                                     !.idx = IF events = <<>> THEN 0 ELSE 1,
                                     !.pc = IF events = <<>> THEN "u_stamp"
                                            ELSE "u_lookup"]]
           ELSE /\ tasks' = [tasks EXCEPT ![t] =
                     Returned(k, PushError(k.result,
                        ErrSyncFailed("Failed to download iCal data")))]
                /\ UNCHANGED ops
      /\ UNCHANGED <<properties, bookings, apiWrites, scheduler, probe>>

\* processCalendarEvent up to its second await: the SELECT of lines 303-308
\* resolves (or rejects) and the date range is checked
LookupBooking(t) ==
  LET k == tasks[t]
      event == k.events[k.idx]
      matches == MatchingIds(bookings, k.prop, event.uid)
  IN  /\ k.pc = "u_lookup"
      /\ \E dbOk \in BOOLEAN : Outcome(dbOk) /\
           IF ~dbOk
           THEN tasks' = [tasks EXCEPT ![t] = Caught(k, event.uid)]
           ELSE IF Nights(event) <= 0
           THEN tasks' = [tasks EXCEPT ![t] =
                  NextEvent([k EXCEPT
                    !.result = PushError(@, ErrInvalidRange(event.uid)),
                    !.trace = Append(@, "invalid")])]
           ELSE \E first \in ExistingBooking(matches) :
                  tasks' = [tasks EXCEPT ![t] =
                    [k EXCEPT !.pc = "u_write", !.existing = first,
                              !.seen = Len(bookings)]]
      /\ UNCHANGED <<properties, bookings, ops, apiWrites, scheduler, probe>>

\* processCalendarEvent from its second await: the UPDATE of lines 336-350
\* or the create of lines 358-380 resolves (or rejects)
WriteBooking(t) ==
  LET k == tasks[t]
      event == k.events[k.idx]
  IN  /\ k.pc = "u_write"
      /\ \E dbOk \in BOOLEAN : Outcome(dbOk) /\
           IF ~dbOk
           THEN /\ tasks' = [tasks EXCEPT ![t] = Caught(k, event.uid)]
                /\ UNCHANGED bookings
           ELSE IF k.existing # 0
           THEN /\ \E at \in Instants :
                     bookings' = [bookings EXCEPT ![k.existing] =
                       UpdatedBooking(@, event, at)]
                /\ tasks' = [tasks EXCEPT ![t] =
                     NextEvent([k EXCEPT
                       !.result.bookingsUpdated = @ + 1,
                       !.trace = Append(@, "updated")])]
           ELSE /\ \E at \in Instants :
                     bookings' =
                       Append(bookings, NewBooking(k.prop, event, at))
                /\ tasks' = [tasks EXCEPT ![t] =
                     NextEvent([k EXCEPT
                       !.result.bookingsCreated = @ + 1,
                       !.trace = Append(@, "created")])]
      /\ UNCHANGED <<properties, ops, apiWrites, scheduler, probe>>

\* a pass that issues the UPDATE of last_sync_at only when no event recorded
\* an error
StampLastSyncIfClean(t) ==
  LET k == tasks[t]
  IN  /\ k.pc = "u_stamp"
      /\ \E dbOk \in BOOLEAN : Outcome(dbOk) /\
           IF dbOk
           THEN /\ \E at \in Instants :
                     properties' =
                       IF k.result.errors = <<>>
                       THEN [properties EXCEPT ![k.prop].lastSyncAt = at]
                       ELSE properties
                /\ tasks' = [tasks EXCEPT ![t] =
                     Returned(k, Completed(k.result))]
           ELSE /\ UNCHANGED properties
                /\ tasks' = [tasks EXCEPT ![t] =
                     Returned(k, PushError(k.result, ErrSyncFailed("db")))]
      /\ UNCHANGED <<bookings, ops, apiWrites, scheduler, probe>>

\* a pass that also stores the URL it fetched as the property's ical_url
StampLastSyncStoringUrl(t) ==
  LET k == tasks[t]
  IN  /\ k.pc = "u_stamp"
      /\ \E dbOk \in BOOLEAN : Outcome(dbOk) /\
           IF dbOk
           THEN /\ \E at \in Instants :
                     properties' =
                       [properties EXCEPT ![k.prop].lastSyncAt = at,
                                          ![k.prop].icalUrl = k.url]
                /\ tasks' = [tasks EXCEPT ![t] =
                     Returned(k, Completed(k.result))]
           ELSE /\ UNCHANGED properties
                /\ tasks' = [tasks EXCEPT ![t] =
                     Returned(k, PushError(k.result, ErrSyncFailed("db")))]
      /\ UNCHANGED <<bookings, ops, apiWrites, scheduler, probe>>

\* the UPDATE of last_sync_at of lines 268-272 resolves (or rejects), then
\* lines 274-287
StampLastSync(t) ==
  LET k == tasks[t]
  IN  /\ k.pc = "u_stamp"
      /\ \E dbOk \in BOOLEAN : Outcome(dbOk) /\
           IF dbOk
           THEN /\ \E at \in Instants :
                     properties' =
                       [properties EXCEPT ![k.prop].lastSyncAt = at]
                /\ tasks' = [tasks EXCEPT ![t] =
                     Returned(k, Completed(k.result))]
           ELSE /\ UNCHANGED properties
                /\ tasks' = [tasks EXCEPT ![t] =
                     Returned(k, PushError(k.result, ErrSyncFailed("db")))]
      /\ UNCHANGED <<bookings, ops, apiWrites, scheduler, probe>>

(***************************************************************************)
(* syncAllProperties.                                                      *)
(***************************************************************************)
\* the orders in which a SELECT without ORDER BY can return the rows S
Orders(S) ==
  {q \in [1..Cardinality(S) -> S] : \A i, j \in DOMAIN q : i # j => q[i] # q[j]}

\* the SELECT of lines 471-476 resolves (or rejects: nothing catches it)
SelectProperties(t) ==
  LET k == tasks[t]
      selected == SyncEnabled
  IN  /\ k.pc = "a_select"
      /\ \E dbOk \in BOOLEAN : Outcome(dbOk) /\
           IF ~dbOk
           THEN tasks' = [tasks EXCEPT ![t] =
                  [k EXCEPT !.pc = "done", !.threw = TRUE]]
           ELSE \E rows \in Orders(selected) :
                  tasks' = [tasks EXCEPT ![t] =
                    IF rows = <<>>
                    THEN [k EXCEPT !.pc = "done"]
                    ELSE [k EXCEPT !.pc = "s_prop", !.prop = Head(rows),
                                   !.queue = Tail(rows)]]
      /\ UNCHANGED <<properties, bookings, ops, apiWrites, scheduler, probe>>

(***************************************************************************)
(* Testing a calendar URL: CalendarSyncService.testCalendarUrl and the      *)
(* POST /test-url route, which does its own fetch.                         *)
(***************************************************************************)
\* testCalendarUrl(url)
StartTestUrl(t, url) ==
  /\ tasks[t].op = "idle"
  /\ ops < MaxOps
  /\ tasks' = [tasks EXCEPT ![t] =
       [IdleTask EXCEPT !.op = "test", !.pc = "t_fetch", !.url = url]]
  /\ ops' = ops + 1
  /\ UNCHANGED <<properties, bookings, apiWrites, faults, scheduler, probe>>

\* a testCalendarUrl without its catch: the rejection reaches the caller
TestFetchThrowing(t) ==
  LET k == tasks[t]
  IN  /\ k.pc = "t_fetch"
      /\ \E outcome \in FetchFailures \cup {"body"} :
           Outcome(outcome = "body") /\
           IF outcome = "body"
           THEN \E data \in Responses :
                  tasks' = [tasks EXCEPT ![t] =
                    [k EXCEPT !.pc = "done", !.fetched = TRUE,
                              !.marker = data.marker,
                              !.test = [valid |-> TRUE,
                                eventCount |->
                                  Len(parseICalData(data.entries)),
                                error |-> NoText]]]
           ELSE tasks' = [tasks EXCEPT ![t] =
                  [k EXCEPT !.pc = "done", !.threw = TRUE]]
      /\ UNCHANGED <<properties, bookings, ops, apiWrites, scheduler, probe>>

\* downloadICalData(url) resolves or rejects in testCalendarUrl, lines
\* 496-508
TestFetch(t) ==
  LET k == tasks[t]
  IN  /\ k.pc = "t_fetch"
      /\ \E outcome \in FetchFailures \cup {"body"} :
           Outcome(outcome = "body") /\
           IF outcome = "body"
           THEN \E data \in Responses :
                  tasks' = [tasks EXCEPT ![t] =
                    [k EXCEPT !.pc = "done", !.fetched = TRUE,
                              !.marker = data.marker,
                              !.test = [valid |-> TRUE,
                                eventCount |->
                                  Len(parseICalData(data.entries)),
                                error |-> NoText]]]
           ELSE tasks' = [tasks EXCEPT ![t] =
                  [k EXCEPT !.pc = "done",
                            !.test = [valid |-> FALSE, eventCount |-> 0,
                              error |-> <<"Failed to download iCal data",
                                          outcome>>]]]
      /\ UNCHANGED <<properties, bookings, ops, apiWrites, scheduler, probe>>

\* req.body.icalUrl of POST /test-url: absent, not a URL, or a URL
BadUrl == "not a url"
TestUrlInputs == Urls \cup {NULL, BadUrl}

\* the number of BEGIN:VEVENT lines of a body
CountVEvents(body) ==
  Cardinality({i \in DOMAIN body : body[i].type = "VEVENT"})

\* POST /test-url up to its axios.get, lines 163-189
StartTestRoute(t, icalUrl) ==
  /\ tasks[t].op = "idle"
  /\ ops < MaxOps
  /\ tasks' = [tasks EXCEPT ![t] =
       IF icalUrl = NULL
       THEN [IdleTask EXCEPT !.op = "testroute", !.pc = "done",
               !.test = [valid |-> FALSE, eventCount |-> 0,
                         error |-> <<"iCal URL is required">>]]
       ELSE IF icalUrl \notin Urls
       THEN [IdleTask EXCEPT !.op = "testroute", !.pc = "done",
               !.url = icalUrl,
               !.test = [valid |-> FALSE, eventCount |-> 0,
                         error |-> <<"Invalid URL format">>]]
       ELSE [IdleTask EXCEPT !.op = "testroute", !.pc = "r_fetch",
               !.url = icalUrl]]
  /\ ops' = ops + 1
  /\ UNCHANGED <<properties, bookings, apiWrites, faults, scheduler, probe>>

\* axios.get resolves or rejects in POST /test-url, lines 184-236
TestRouteFetch(t) ==
  LET k == tasks[t]
  IN  /\ k.pc = "r_fetch"
      /\ \E outcome \in {"network", "status", "body"} :
           Outcome(outcome = "body") /\
           IF outcome = "body"
           THEN \E data \in Responses :
                  tasks' = [tasks EXCEPT ![t] =
                    [k EXCEPT !.pc = "done", !.fetched = TRUE,
                              !.marker = data.marker,
                              !.test =
                                IF data.marker
                                THEN [valid |-> TRUE,
                                      eventCount |->
                                        CountVEvents(data.entries),
                                      error |-> NoText]
                                ELSE [valid |-> FALSE, eventCount |-> 0,
                                      error |-> <<"URL does not return valid iCal data">>]]]
           ELSE tasks' = [tasks EXCEPT ![t] =
                  [k EXCEPT !.pc = "done",
                            !.test = [valid |-> FALSE, eventCount |-> 0,
                                      error |-> <<"URL test failed",
                                                  outcome>>]]]
      /\ UNCHANGED <<properties, bookings, ops, apiWrites, scheduler, probe>>

(***************************************************************************)
(* CalendarScheduler.  start() and the cron callback each await            *)
(* syncAllProperties(), which runs as a task (by = "start" or "cron").     *)
(***************************************************************************)
\* syncAllProperties() called by the scheduler
BeginScheduledSync(t, caller) ==
  /\ tasks[t].op = "idle"
  /\ ops + Max(1, Cardinality(SyncEnabled)) <= MaxOps
  /\ tasks' = [tasks EXCEPT ![t] =
       [IdleTask EXCEPT !.op = "all", !.pc = "a_select", !.by = caller,
                        !.keysStart = Keys(bookings)]]
  /\ ops' = ops + Max(1, Cardinality(SyncEnabled))

\* a start() that arms its cron task before the initial sync pass
SchedulerStartArmingFirst(t) ==
  /\ IF scheduler.isRunning
     THEN /\ scheduler' = [scheduler EXCEPT !.lastCall = "start"]
          /\ UNCHANGED <<tasks, ops>>
     ELSE /\ BeginScheduledSync(t, "start")
          /\ scheduler' = [scheduler EXCEPT
                             !.lastCall = "start",
                             !.initialSyncs = @ + 1,
                             !.task = scheduler.cronTasks + 1,
                             !.cronTasks = @ + 1,
                             !.armed = @ \cup {scheduler.cronTasks + 1},
                             !.isRunning = TRUE]
  /\ UNCHANGED <<properties, bookings, apiWrites, faults, probe>>

\* start() up to its await, lines 11-20
SchedulerStart(t) ==
  /\ IF scheduler.isRunning
     THEN /\ scheduler' = [scheduler EXCEPT !.lastCall = "start"]
          /\ UNCHANGED <<tasks, ops>>
     ELSE /\ BeginScheduledSync(t, "start")
          /\ scheduler' = [scheduler EXCEPT !.lastCall = "start",
                                            !.initialSyncs = @ + 1]
  /\ UNCHANGED <<properties, bookings, apiWrites, faults, probe>>

\* start() after its await, lines 21-47: the initial pass has returned or
\* thrown; cron.schedule, this.task.start(), this.isRunning = true
ArmTimer(t) ==
  LET id == scheduler.cronTasks + 1
  IN  /\ tasks[t].pc = "done"
      /\ tasks[t].by = "start"
      /\ tasks' = [tasks EXCEPT ![t] = IdleTask]
      /\ scheduler' = [scheduler EXCEPT !.task = id, !.cronTasks = id,
                                        !.armed = @ \cup {id},
                                        !.isRunning = TRUE,
                                        !.initialThrew = tasks[t].threw]
      /\ UNCHANGED <<properties, bookings, ops, apiWrites, faults, probe>>

\* an armed cron task fires: the callback of lines 31-43 up to its await
CronTick(t) ==
  /\ scheduler.armed # {}
  /\ BeginScheduledSync(t, "cron")
  /\ UNCHANGED <<properties, bookings, apiWrites, faults, scheduler, probe>>

\* the callback after its await: the scheduled pass has returned or thrown
CronDone(t) ==
  /\ tasks[t].pc = "done"
  /\ tasks[t].by = "cron"
  /\ tasks' = [tasks EXCEPT ![t] = IdleTask]
  /\ UNCHANGED <<properties, bookings, ops, apiWrites, faults, scheduler, probe>>

\* stop(), lines 53-60
SchedulerStop ==
  /\ scheduler' = [scheduler EXCEPT
                     !.armed = IF scheduler.task # 0
                               THEN @ \ {scheduler.task} ELSE @,
                     !.task = 0,
                     !.isRunning = FALSE,
                     !.lastCall = "stop",
                     !.stopCalled = TRUE]
  /\ UNCHANGED <<properties, bookings, tasks, ops, apiWrites, faults, probe>>

\* the caller takes the outcome of the operation
Finish(t) ==
  /\ tasks[t].pc = "done"
  /\ tasks[t].by = "api"
  /\ tasks' = [tasks EXCEPT ![t] = IdleTask]
  /\ UNCHANGED <<properties, bookings, ops, apiWrites, faults, scheduler, probe>>

(***************************************************************************)
(* The rest of the system.                                                 *)
(***************************************************************************)
\* request bodies of PUT /api/bookings/:id
BookingUpdates ==
  {[bookingStatus |-> "confirmed", paymentStatus |-> "paid",
    baseAmount |-> 80, cleaningFee |-> 5, taxes |-> 10, totalAmount |-> 100,
    securityDeposit |-> 20]}

\* PUT /api/bookings/:id with a body of BookingUpdates: updateMany
UpdateBookingApi(id, data) ==
  /\ apiWrites < MaxApiWrites
  /\ id \in DOMAIN bookings
  /\ bookings' = [bookings EXCEPT ![id] =
       [@ EXCEPT !.bookingStatus = data.bookingStatus,
                 !.paymentStatus = data.paymentStatus,
                 !.baseAmount = data.baseAmount,
                 !.cleaningFee = data.cleaningFee,
                 !.taxes = data.taxes,
                 !.totalAmount = data.totalAmount,
                 !.securityDeposit = data.securityDeposit]]
  /\ apiWrites' = apiWrites + 1
  /\ UNCHANGED <<properties, tasks, ops, faults, scheduler, probe>>

\* findFirst of lines 507-525: a booking of the property, neither cancelled
\* nor no_show, whose stay overlaps [checkIn, checkOut)
OverlappingBookings(db, propertyId, checkIn, checkOut) ==
  {id \in DOMAIN db :
     /\ db[id].propertyId = propertyId
     /\ db[id].bookingStatus \notin {"cancelled", "no_show"}
     /\ db[id].checkInDate < checkOut
     /\ db[id].checkOutDate > checkIn}

\* the row prisma.booking.create of lines 536-553 inserts for a request of
\* one guest with no amounts beyond the required ones
ApiBooking(propertyId, checkIn, checkOut, at) ==
  [propertyId |-> propertyId,
   guestName |-> TxtAl,
   guestEmail |-> NULL,
   guestPhone |-> NULL,
   numberOfGuests |-> 1,
   checkInDate |-> checkIn,
   checkOutDate |-> checkOut,
   nightsCount |-> Ceil(checkOut - checkIn, DayTicks),
   baseAmount |-> 80,
   cleaningFee |-> 0,
   taxes |-> 0,
   totalAmount |-> 80,
   securityDeposit |-> 0,
   bookingStatus |-> "pending",
   paymentStatus |-> "pending",
   bookingSource |-> "direct",
   externalId |-> NoUid,
   specialRequests |-> NoText,
   internalNotes |-> <<NoText, at>>,
   updatedAt |-> at]

\* POST /api/bookings, lines 449-585: 404 for an unknown property, 400 for
\* checkOut <= checkIn or an overlapping booking, else the create
CreateBookingApi(propertyId, checkIn, checkOut) ==
  /\ apiWrites < MaxApiWrites
  /\ \E at \in Instants :
       bookings' =
         IF /\ propertyId \in Props
            /\ checkOut > checkIn
            /\ OverlappingBookings(bookings, propertyId,
                                   checkIn, checkOut) = {}
         THEN Append(bookings,
                     ApiBooking(propertyId, checkIn, checkOut, at))
         ELSE bookings
  /\ apiWrites' = apiWrites + 1
  /\ UNCHANGED <<properties, tasks, ops, faults, scheduler, probe>>

\* checkInDate and checkOutDate of a request
StayDates == 0..3

\* updateCalendarSettings(propertyId, {icalUrl?, syncEnabled?}): an omitted
\* icalUrl is bound as NULL, an omitted syncEnabled as false
UpdateSettings(propertyId, hasUrl, icalUrl, hasEnabled, syncEnabled) ==
  /\ apiWrites < MaxApiWrites
  /\ propertyId \in Props
  /\ properties' = [properties EXCEPT ![propertyId] =
       [@ EXCEPT !.icalUrl = IF hasUrl THEN icalUrl ELSE NULL,
                 !.syncEnabled = hasEnabled /\ syncEnabled]]
  /\ apiWrites' = apiWrites + 1
  /\ UNCHANGED <<bookings, tasks, ops, faults, scheduler, probe>>

SettingsInputs ==
  {<<hasUrl, icalUrl, hasEnabled, syncEnabled>> \in
     BOOLEAN \X Urls \X BOOLEAN \X BOOLEAN :
       /\ (~hasUrl => icalUrl = "urlA")
       /\ (~hasEnabled => ~syncEnabled)}

(***************************************************************************)
(* Specifications.  Sync operations run one at a time and the routes write *)
(* between operations.  Spec: syncPropertyCalendarWithUrl, called by       *)
(* POST /sync/:propertyId, and the bookings route.  SpecStored:            *)
(* syncPropertyCalendar and syncAllProperties, and the settings route.     *)
(***************************************************************************)
Next ==
  \/ \E p \in PropIds, u \in Urls :
       AllIdle /\ StartSyncWithUrl("t1", p, u)
  \/ \E t \in Tasks : SyncAgain(t)
  \/ \E t \in Tasks : QueryProperty(t)
  \/ \E t \in Tasks : Download(t)
  \/ \E t \in Tasks : LookupBooking(t)
  \/ \E t \in Tasks : WriteBooking(t)
  \/ \E t \in Tasks : StampLastSync(t)
  \/ \E t \in Tasks : Finish(t)
  \/ \E id \in DOMAIN bookings, data \in BookingUpdates :
       AllIdle /\ UpdateBookingApi(id, data)

Spec == Init /\ [][Next]_vars

NextStored ==
  \/ \E p \in PropIds : AllIdle /\ StartSyncStored("t1", p)
  \/ AllIdle /\ StartSyncAll("t1")
  \/ \E t \in Tasks : QueryStoredProperty(t)
  \/ \E t \in Tasks : QueryProperty(t)
  \/ \E t \in Tasks : Download(t)
  \/ \E t \in Tasks : LookupBooking(t)
  \/ \E t \in Tasks : WriteBooking(t)
  \/ \E t \in Tasks : StampLastSync(t)
  \/ \E t \in Tasks : SelectProperties(t)
  \/ \E t \in Tasks : Finish(t)
  \/ \E in \in SettingsInputs, p \in Props :
       AllIdle /\ UpdateSettings(p, in[1], in[2], in[3], in[4])

SpecStored == Init /\ [][NextStored]_vars

\* SpecSettings: property p2, which starts without a stored icalUrl, synced
\* with an explicit URL and by its stored settings, and the settings route
\* writing its settings between the passes
NextSettings ==
  \/ \E u \in Urls : AllIdle /\ StartSyncWithUrl("t1", "p2", u)
  \/ AllIdle /\ StartSyncStored("t1", "p2")
  \/ \E t \in Tasks : QueryStoredProperty(t)
  \/ \E t \in Tasks : QueryProperty(t)
  \/ \E t \in Tasks : Download(t)
  \/ \E t \in Tasks : LookupBooking(t)
  \/ \E t \in Tasks : WriteBooking(t)
  \/ \E t \in Tasks : StampLastSync(t)
  \/ \E t \in Tasks : Finish(t)
  \/ \E in \in SettingsInputs :
       AllIdle /\ UpdateSettings("p2", in[1], in[2], in[3], in[4])

SpecSettings == Init /\ [][NextSettings]_vars

\* SpecTest: URL tests between the passes of syncPropertyCalendarWithUrl
NextTest ==
  \/ \E p \in PropIds, u \in Urls :
       AllIdle /\ StartSyncWithUrl("t1", p, u)
  \/ \E u \in Urls : AllIdle /\ StartTestUrl("t1", u)
  \/ \E u \in TestUrlInputs : AllIdle /\ StartTestRoute("t1", u)
  \/ \E t \in Tasks : TestFetch(t)
  \/ \E t \in Tasks : TestRouteFetch(t)
  \/ \E t \in Tasks : QueryProperty(t)
  \/ \E t \in Tasks : Download(t)
  \/ \E t \in Tasks : LookupBooking(t)
  \/ \E t \in Tasks : WriteBooking(t)
  \/ \E t \in Tasks : StampLastSync(t)
  \/ \E t \in Tasks : Finish(t)

SpecTest == Init /\ [][NextTest]_vars

(***************************************************************************)
(* extractGuestInfo called on its own.  A summary is put together from a   *)
(* lead of letters and spaces, a closure word (or none), before or after   *)
(* the lead, and " - <count> guests" (or nothing).                         *)
(***************************************************************************)
SummaryInputs ==
  LET Letters(n) == [i \in 1..n |-> "a"]
      leads == {NoText, <<" ">>, <<"J">>, <<"J","o">>,
                <<" ","J","o"," ">>, <<"J","o"," ","A","l">>,
                Letters(NameMaxLen), Letters(NameMaxLen + 1)}
      words == {NoText, KwClosed, TxtClosed, <<"B","l","o","c","k","e","d">>,
                <<"U","N","A","V","A","I","L","A","B","L","E">>,
                <<"N","o","t"," ","A","v","a","i","l","a","b","l","e">>}
      counts == {NoText, <<"0">>, <<"1">>, <<"2">>, <<"1","2">>}
  IN  {a \in [lead : leads, word : words, count : counts,
              wordFirst : BOOLEAN] :
         a.wordFirst => a.word # NoText}

\* event.summary of an input
SummaryOf(a) ==
  (IF a.wordFirst THEN a.word \o a.lead ELSE a.lead \o a.word)
    \o (IF a.count = NoText THEN NoText
        ELSE <<" ","-"," ">> \o a.count
               \o <<" ","g","u","e","s","t","s">>)

CallExtractGuestInfo ==
  /\ probe.fn = "extractGuestInfo"
  /\ ~probe.called
  /\ probe' = [probe EXCEPT
       !.called = TRUE,
       !.out = extractGuestInfo([uid |-> "u1",
                                 summary |-> SummaryOf(probe.arg),
                                 description |-> NoText,
                                 start |-> 0, end |-> 1])]
  /\ UNCHANGED <<properties, bookings, tasks, ops, apiWrites, faults, scheduler>>

(***************************************************************************)
(* parseICalData called on its own, on calendars that also hold entries    *)
(* without start, end or summary.                                          *)
(***************************************************************************)
CalendarInputs ==
  SeqsUpTo(Entries \cup
    {[type |-> "VEVENT", uid |-> "u3", summary |-> TxtAl,
      description |-> NoText, start |-> NoDate, end |-> 1],
     [type |-> "VEVENT", uid |-> "u4", summary |-> TxtAl,
      description |-> NoText, start |-> 0, end |-> NoDate],
     [type |-> "VEVENT", uid |-> "u5", summary |-> NoText,
      description |-> TxtMail, start |-> 1, end |-> 2]},
    MaxEntries)

CallParseICalData ==
  /\ probe.fn = "parseICalData"
  /\ ~probe.called
  /\ probe' = [probe EXCEPT !.called = TRUE,
                            !.out = parseICalData(probe.arg)]
  /\ UNCHANGED <<properties, bookings, tasks, ops, apiWrites, faults, scheduler>>

\* the events parseICalData returned, each taken through the create path of
\* processCalendarEvent (extractGuestInfo, then the booking of lines 358-380)
\* for a property without bookings
CallProcessParsed ==
  /\ probe.fn = "parseICalData"
  /\ probe.called
  /\ probe' = [probe EXCEPT
       !.fn = "processCalendarEvent",
       !.arg = probe.out,
       !.out = [i \in DOMAIN probe.out |-> NewBooking("p1", probe.out[i], 0)]]
  /\ UNCHANGED <<properties, bookings, tasks, ops, apiWrites, faults, scheduler>>

\* SpecBookings: POST /api/bookings between the passes of
\* syncPropertyCalendarWithUrl
NextBookings ==
  \/ \E p \in PropIds, u \in Urls :
       AllIdle /\ StartSyncWithUrl("t1", p, u)
  \/ \E p \in PropIds, checkIn \in StayDates, checkOut \in StayDates :
       AllIdle /\ CreateBookingApi(p, checkIn, checkOut)
  \/ \E t \in Tasks : QueryProperty(t)
  \/ \E t \in Tasks : Download(t)
  \/ \E t \in Tasks : LookupBooking(t)
  \/ \E t \in Tasks : WriteBooking(t)
  \/ \E t \in Tasks : StampLastSync(t)
  \/ \E t \in Tasks : Finish(t)

SpecBookings == Init /\ [][NextBookings]_vars

\* SpecOwn: passes of syncPropertyCalendarWithUrl over p1 and p2, and
\* POST /api/bookings for one night of p1 from day 0 between the passes
NextOwn ==
  \/ \E p \in Props, u \in Urls :
       AllIdle /\ StartSyncWithUrl("t1", p, u)
  \/ AllIdle /\ CreateBookingApi("p1", 0, DayTicks)
  \/ \E t \in Tasks : QueryProperty(t)
  \/ \E t \in Tasks : Download(t)
  \/ \E t \in Tasks : LookupBooking(t)
  \/ \E t \in Tasks : WriteBooking(t)
  \/ \E t \in Tasks : StampLastSync(t)
  \/ \E t \in Tasks : Finish(t)

SpecOwn == Init /\ [][NextOwn]_vars

\* SpecPure: one call of extractGuestInfo or of parseICalData on an argument
\* of SummaryInputs or CalendarInputs, and the events parsed taken through
\* the create path of processCalendarEvent
InitPure ==
  /\ properties =
       [p \in Props |->
          [icalUrl |-> NULL, syncEnabled |-> FALSE, lastSyncAt |-> NoDate]]
  /\ bookings = <<>>
  /\ tasks = [t \in Tasks |-> IdleTask]
  /\ ops = 0
  /\ apiWrites = 0
  /\ faults = 0
  /\ scheduler = SchedulerStopped
  /\ \/ \E a \in SummaryInputs :
          probe = [fn |-> "extractGuestInfo", arg |-> a, out |-> <<>>,
                   called |-> FALSE]
     \/ \E body \in CalendarInputs :
          probe = [fn |-> "parseICalData", arg |-> body, out |-> <<>>,
                   called |-> FALSE]

NextPure ==
  \/ CallExtractGuestInfo
  \/ CallParseICalData
  \/ CallProcessParsed

SpecPure == InitPure /\ [][NextPure]_vars

\* SpecRace: POST /sync/:propertyId requests for one property served
\* together, their awaits interleaved
NextRace ==
  \/ \E t \in Tasks, u \in Urls : StartSyncWithUrl(t, "p1", u)
  \/ \E t \in Tasks : QueryProperty(t)
  \/ \E t \in Tasks : Download(t)
  \/ \E t \in Tasks : LookupBooking(t)
  \/ \E t \in Tasks : WriteBooking(t)
  \/ \E t \in Tasks : StampLastSync(t)
  \/ \E t \in Tasks : Finish(t)

SpecRace == Init /\ [][NextRace]_vars

\* SpecPair: one sync of p1 and one sync of p2 served together, their
\* awaits interleaved, up to the return of both
NextPair ==
  \/ \E u \in Urls : StartSyncWithUrl("t1", "p1", u)
  \/ \E u \in Urls : StartSyncWithUrl("t2", "p2", u)
  \/ \E t \in Tasks : QueryProperty(t)
  \/ \E t \in Tasks : Download(t)
  \/ \E t \in Tasks : LookupBooking(t)
  \/ \E t \in Tasks : WriteBooking(t)
  \/ \E t \in Tasks : StampLastSync(t)

SpecPair == Init /\ [][NextPair]_vars

\* SpecScheduler: start() and stop() called at any time, the cron tasks
\* firing, and the passes of syncAllProperties they await
NextScheduler ==
  \/ \E t \in Tasks : SchedulerStart(t)
  \/ SchedulerStop
  \/ \E t \in Tasks : CronTick(t)
  \/ \E t \in Tasks : SelectProperties(t)
  \/ \E t \in Tasks : QueryStoredProperty(t)
  \/ \E t \in Tasks : QueryProperty(t)
  \/ \E t \in Tasks : Download(t)
  \/ \E t \in Tasks : LookupBooking(t)
  \/ \E t \in Tasks : WriteBooking(t)
  \/ \E t \in Tasks : StampLastSync(t)
  \/ \E t \in Tasks : ArmTimer(t)
  \/ \E t \in Tasks : CronDone(t)

SpecScheduler == Init /\ [][NextScheduler]_vars

\* SpecStart: calls of start() alone, with the initial passes they await
NextStart ==
  \/ \E t \in Tasks : SchedulerStart(t)
  \/ \E t \in Tasks : SelectProperties(t)
  \/ \E t \in Tasks : QueryStoredProperty(t)
  \/ \E t \in Tasks : QueryProperty(t)
  \/ \E t \in Tasks : Download(t)
  \/ \E t \in Tasks : LookupBooking(t)
  \/ \E t \in Tasks : WriteBooking(t)
  \/ \E t \in Tasks : StampLastSync(t)
  \/ \E t \in Tasks : ArmTimer(t)

SpecStart == Init /\ [][NextStart]_vars

(***************************************************************************)
(* Properties.  Helpers first.                                             *)
(***************************************************************************)
\* the events of a list whose end is after their start
ValidCount(events) ==
  Cardinality({i \in DOMAIN events : events[i].end > events[i].start})

\* no event of the pass threw
NoneThrew(trace) == \A i \in DOMAIN trace : trace[i] # "threw"

\* the uids of a list of events
EventUids(events) == {events[i].uid : i \in DOMAIN events}

\* C1 (idempotence of sync): when syncPropertyCalendarWithUrl has fetched a
\* calendar and is run again on the same event list with no write in
\* between, and no event's lookup or write is rejected in either pass, the
\* second pass reports bookingsCreated = 0 and bookingsUpdated = the number
\* of events whose end is after their start, and the bookings (ids with
\* their property and externalId) are the same after the second pass as
\* after the first.
C1_Idempotence ==
  \A t \in Tasks :
    LET k == tasks[t]
    IN  (/\ k.op = "url"
         /\ k.pc = "done"
         /\ k.fetched
         /\ k.prev # NoPass
         /\ NoneThrew(k.prev.trace)
         /\ NoneThrew(k.trace))
        => /\ k.events = k.prev.events
           /\ Len(k.trace) = Len(k.events)
           /\ k.result.bookingsCreated = 0
           /\ k.result.bookingsUpdated = ValidCount(k.events)
           /\ Keys(bookings) = k.prev.keys

\* a second pass over a valid and an invalid event has finished
C1_Witness ==
  \E t \in Tasks :
    LET k == tasks[t]
    IN  /\ k.op = "url"
        /\ k.pc = "done"
        /\ k.fetched
        /\ k.prev # NoPass
        /\ NoneThrew(k.prev.trace)
        /\ NoneThrew(k.trace)
        /\ Len(k.events) = 2
        /\ ValidCount(k.events) = 1
        /\ k.result.bookingsUpdated = 1

\* C2 (dedup key): with sync passes run one at a time, at most one booking
\* has a given property and (non-null) externalId, also when an externalId
\* occurs more than once within one pass.
C2_DedupKey ==
  \A i, j \in DOMAIN bookings :
    (/\ bookings[i].externalId # NoUid
     /\ bookings[i].propertyId = bookings[j].propertyId
     /\ bookings[i].externalId = bookings[j].externalId)
    => i = j

\* a pass over a calendar with the same UID in two entries has created one
\* booking for it, and a second pass has updated that booking
C2_Witness ==
  \E t \in Tasks :
    LET k == tasks[t]
    IN  /\ k.prev # NoPass
        /\ k.repeats
        /\ k.prev.trace = <<"created">>
        /\ k.trace = <<"updated">>
        /\ Cardinality(MatchingIds(bookings, k.prop, k.events[1].uid)) = 1

\* C3 (invalid range rejection): processing an event whose end is not after
\* its start creates no booking, changes no booking (one with the same
\* externalId included), leaves bookingsCreated and bookingsUpdated as they
\* were, and appends exactly one error, which names the event; the pass
\* then moves to the next event.
C3_InvalidRangeRejected ==
  [][\A t \in Tasks :
       LET k == tasks[t]
           after == tasks'[t]
       IN  (/\ k.pc = "u_lookup"
            /\ k.events[k.idx].end <= k.events[k.idx].start
            /\ after # k)
           => /\ bookings' = bookings
              /\ after.result.bookingsCreated = k.result.bookingsCreated
              /\ after.result.bookingsUpdated = k.result.bookingsUpdated
              /\ \E err \in {ErrInvalidRange(k.events[k.idx].uid),
                             ErrProcessing(k.events[k.idx].uid)} :
                   after.result.errors = Append(k.result.errors, err)
              /\ after.pc \in {"u_lookup", "u_stamp"}
              /\ after.pc = "u_lookup" => after.idx = k.idx + 1
    ]_vars

\* an event with an invalid range has been rejected while a booking with its
\* externalId exists
C3_Witness ==
  \E t \in Tasks :
    LET k == tasks[t]
    IN  \E i \in DOMAIN k.trace :
          /\ k.trace[i] = "invalid"
          /\ MatchingIds(bookings, k.prop, k.events[i].uid) # {}
          /\ ErrInvalidRange(k.events[i].uid) \in Range(k.result.errors)

\* the fields of a booking that carry its status, its money and its origin
StatusAndMoney(row) ==
  <<row.bookingStatus, row.paymentStatus, row.baseAmount, row.cleaningFee,
    row.taxes, row.totalAmount, row.securityDeposit, row.bookingSource,
    row.externalId, row.propertyId>>

\* guest fields, dates, nights and note fields
GuestDateNoteFields ==
  {"guestName", "guestEmail", "guestPhone", "numberOfGuests", "checkInDate",
   "checkOutDate", "nightsCount", "specialRequests", "internalNotes"}

\* a step in which a sync pass updates the booking it matched writes that
\* booking alone, a booking of the pass's property and the event's uid,
\* and leaves every field outside GuestDateNoteFields and `others` as it was
UpdateFrame(others) ==
  \A t \in Tasks :
    LET k == tasks[t]
        after == tasks'[t]
        id == k.existing
    IN  (/\ k.pc = "u_write"
         /\ id # 0
         /\ after.trace = Append(k.trace, "updated"))
        => /\ bookings[id].propertyId = k.prop
           /\ bookings[id].externalId = k.events[k.idx].uid
           /\ DOMAIN bookings' = DOMAIN bookings
           /\ \A j \in DOMAIN bookings \ {id} : bookings'[j] = bookings[j]
           /\ StatusAndMoney(bookings'[id]) = StatusAndMoney(bookings[id])
           /\ \A f \in DOMAIN bookings[id] \ (GuestDateNoteFields \cup others) :
                bookings'[id][f] = bookings[id][f]
           /\ after.result.bookingsUpdated = k.result.bookingsUpdated + 1
           /\ after.result.bookingsCreated = k.result.bookingsCreated

\* C4 (update preserves status and money): when a sync event matches a
\* booking by property and externalId, the update leaves bookingStatus,
\* paymentStatus, baseAmount, cleaningFee, taxes, totalAmount,
\* securityDeposit, bookingSource, externalId and propertyId unchanged; only
\* guest fields, dates, nightsCount, note fields and the row's updated_at
\* change, and no other booking changes.
C4_UpdatePreserves == [][UpdateFrame({"updatedAt"})]_vars

\* C4 as first stated: only guest fields, dates, nightsCount and note fields
\* change
C4_OnlyGuestDateNote == [][UpdateFrame({})]_vars

\* a sync pass has updated a booking that the bookings route had confirmed
\* and priced
C4_Witness ==
  \E t \in Tasks :
    LET k == tasks[t]
    IN  \E i \in DOMAIN k.trace :
          /\ k.trace[i] = "updated"
          /\ \E id \in MatchingIds(bookings, k.prop, k.events[i].uid) :
               /\ bookings[id].bookingStatus = "confirmed"
               /\ bookings[id].totalAmount = 100
               /\ bookings[id].internalNotes[1] = NoteUpdated

\* C5 (create defaults): when an event whose end is after its start has no
\* booking with its property and uid, the lookup leads to a create; the
\* create inserts exactly one booking and changes no other, with
\* bookingStatus and paymentStatus 'pending', every financial field zero,
\* externalId the event's uid, bookingSource set, and notes that start with
\* '[PLACEHOLDER]' exactly when the extracted guest info has isPlaceholder;
\* bookingsCreated grows by exactly 1.
C5_CreateDefaults ==
  [][\A t \in Tasks :
       LET k == tasks[t]
           after == tasks'[t]
       IN  /\ (/\ k.pc = "u_lookup"
               /\ k.events[k.idx].end > k.events[k.idx].start
               /\ MatchingIds(bookings, k.prop, k.events[k.idx].uid) = {}
               /\ after # k
               /\ after.trace = k.trace)
              => /\ after.pc = "u_write"
                 /\ after.existing = 0
                 /\ bookings' = bookings
           /\ (/\ k.pc = "u_write"
               /\ k.existing = 0
               /\ after.trace = Append(k.trace, "created"))
              => LET event == k.events[k.idx]
                     row == bookings'[Len(bookings')]
                 IN  /\ event.end > event.start
                     /\ MatchingIds(bookings, k.prop, event.uid) = {}
                     /\ Len(bookings') = Len(bookings) + 1
                     /\ \A id \in DOMAIN bookings : bookings'[id] = bookings[id]
                     /\ row.propertyId = k.prop
                     /\ row.externalId = event.uid
                     /\ row.bookingStatus = "pending"
                     /\ row.paymentStatus = "pending"
                     /\ <<row.baseAmount, row.cleaningFee, row.taxes,
                          row.totalAmount, row.securityDeposit>>
                          = <<0, 0, 0, 0, 0>>
                     /\ row.bookingSource = "booking.com"
                     /\ (row.internalNotes[1] = NotePlaceholder)
                          <=> extractGuestInfo(event).isPlaceholder
                     /\ row.internalNotes[1] \in {NotePlaceholder, NoteImported}
                     /\ after.result.bookingsCreated
                          = k.result.bookingsCreated + 1
                     /\ after.result.bookingsUpdated = k.result.bookingsUpdated
    ]_vars

\* a pass has created a placeholder booking and a booking of a named guest
C5_Witness ==
  \E t \in Tasks :
    LET k == tasks[t]
    IN  \E i, j \in DOMAIN k.trace :
          /\ k.trace[i] = "created"
          /\ k.trace[j] = "created"
          /\ \E id \in MatchingIds(bookings, k.prop, k.events[i].uid) :
               /\ bookings[id].internalNotes[1] = NotePlaceholder
               /\ bookings[id].bookingStatus = "pending"
          /\ \E id \in MatchingIds(bookings, k.prop, k.events[j].uid) :
               bookings[id].internalNotes[1] = NoteImported

\* the externalIds of the bookings of a property, from the keys of a table
UidsOf(keys, propertyId) ==
  {keys[id].externalId :
     id \in {i \in DOMAIN keys : keys[i].propertyId = propertyId}}

\* what each event of a list does when no lookup and no write is rejected,
\* for a property whose bookings have the externalIds `have`
RECURSIVE OutcomesUnfailed(_, _)
OutcomesUnfailed(have, events) ==
  IF events = <<>> THEN <<>>
  ELSE LET event == Head(events)
       IN  IF event.end <= event.start
           THEN <<"invalid">> \o OutcomesUnfailed(have, Tail(events))
           ELSE IF event.uid \in have
           THEN <<"updated">> \o OutcomesUnfailed(have, Tail(events))
           ELSE <<"created">>
                  \o OutcomesUnfailed(have \cup {event.uid}, Tail(events))

\* C7 (per-event failure isolation): in a pass where the lookup or write of
\* an event throws, the error is appended to the result's errors with the
\* event's uid, and every other event is still processed and has the
\* create/update outcome it has when nothing throws.
C7_FailureIsolated ==
  \A t \in Tasks :
    LET k == tasks[t]
        unfailed == OutcomesUnfailed(UidsOf(k.keysStart, k.prop), k.events)
    IN  (k.op = "url" /\ k.pc = "done" /\ k.fetched)
        => /\ Len(k.trace) = Len(k.events)
           /\ \A i \in DOMAIN k.trace :
                IF k.trace[i] = "threw"
                THEN ErrProcessing(k.events[i].uid) \in Range(k.result.errors)
                ELSE k.trace[i] = unfailed[i]

\* a pass has gone on past an event that threw, and created or updated a
\* booking from a later event
C7_Witness ==
  \E t \in Tasks :
    LET k == tasks[t]
    IN  /\ k.op = "url"
        /\ k.pc = "done"
        /\ k.fetched
        /\ Len(k.trace) = 2
        /\ k.trace[1] = "threw"
        /\ k.trace[2] \in {"created", "updated"}
        /\ k.events[1].uid # k.events[2].uid

\* C6 (sync never deletes): in every step of syncPropertyCalendar and
\* syncAllProperties every booking id stays, and a booking that changes is
\* being written by a pass of its own property whose fetched calendar has
\* the booking's externalId: a booking whose externalId is absent from the
\* fetched calendar is left as it is.
C6_NeverDeletes ==
  [][/\ DOMAIN bookings \subseteq DOMAIN bookings'
     /\ \A id \in DOMAIN bookings :
          bookings'[id] # bookings[id]
          => \E t \in Tasks :
               /\ tasks[t].pc = "u_write"
               /\ tasks[t].fetched
               /\ bookings[id].propertyId = tasks[t].prop
               /\ bookings[id].externalId \in EventUids(tasks[t].events)
    ]_vars

\* a pass has processed a fetched calendar that lacks the externalId of a
\* booking of its property
C6_Witness ==
  \E t \in Tasks :
    LET k == tasks[t]
    IN  /\ k.pc = "done"
        /\ k.fetched
        /\ k.trace # <<>>
        /\ NoneThrew(k.trace)
        /\ \E id \in DOMAIN bookings :
             /\ bookings[id].propertyId = k.prop
             /\ bookings[id].externalId \notin EventUids(k.events)

\* how many events of a pass had the outcome x
Count(trace, x) == Cardinality({i \in DOMAIN trace : trace[i] = x})

\* the properties a bulk sync selects
SelectedNow ==
  {p \in Props : properties[p].syncEnabled /\ properties[p].icalUrl # NULL}

\* C8 (bulk sync isolation): syncAllProperties returns exactly one
\* SyncResult per selected property; a property whose fetch or parse failed
\* has success = false, errors, and no booking created or updated; every
\* other property is synced, and its result is the one of a sync of that
\* property alone: each event that did not throw is created or updated by
\* the bookings its own property had, and the counts and the success flag
\* follow.
C8_BulkIsolation ==
  \A t \in Tasks :
    LET k == tasks[t]
    IN  (k.op = "all" /\ k.pc = "done" /\ ~k.threw)
        => /\ Len(k.results) = Cardinality(SelectedNow)
           /\ Len(k.log) = Len(k.results)
           /\ {k.log[i].prop : i \in DOMAIN k.log} = SelectedNow
           /\ \A i \in DOMAIN k.results :
                LET pass == k.log[i]
                    res == k.results[i]
                    alone == OutcomesUnfailed(
                               UidsOf(k.keysStart, pass.prop), pass.events)
                IN  IF ~pass.fetched
                    THEN /\ ~res.success
                         /\ res.errors # <<>>
                         /\ res.bookingsCreated = 0
                         /\ res.bookingsUpdated = 0
                    ELSE /\ Len(pass.trace) = Len(pass.events)
                         /\ \A j \in DOMAIN pass.trace :
                              pass.trace[j] # "threw"
                              => pass.trace[j] = alone[j]
                         /\ res.bookingsCreated = Count(pass.trace, "created")
                         /\ res.bookingsUpdated = Count(pass.trace, "updated")
                         /\ res.success <=> res.errors = <<>>

\* a bulk sync of two properties has returned a failed fetch for the first
\* and a clean sync that created a booking for the second
C8_Witness ==
  \E t \in Tasks :
    LET k == tasks[t]
    IN  /\ k.op = "all"
        /\ k.pc = "done"
        /\ Len(k.results) = 2
        /\ ~k.log[1].fetched
        /\ ~k.results[1].success
        /\ k.log[2].fetched
        /\ k.results[2].success
        /\ k.results[2].bookingsCreated = 1

\* C9 (settings gating): syncPropertyCalendar on a property with
\* syncEnabled = false or with no stored icalUrl fetches nothing, creates
\* or updates no booking, leaves lastSyncAt as it is, and returns a
\* SyncResult with success = false and a non-empty error list.
C9_SettingsGating ==
  [][\A t \in Tasks :
       LET k == tasks[t]
           after == tasks'[t]
       IN  (/\ k.op = "stored"
            /\ k.pc = "s_prop"
            /\ k.prop \in Props
            /\ (~properties[k.prop].syncEnabled
                  \/ properties[k.prop].icalUrl = NULL)
            /\ after # k)
           => /\ after.pc = "done"
              /\ ~after.fetched
              /\ after.trace = <<>>
              /\ bookings' = bookings
              /\ properties' = properties
              /\ ~after.result.success
              /\ after.result.errors # <<>>
              /\ after.result.bookingsCreated = 0
              /\ after.result.bookingsUpdated = 0
    ]_vars

\* syncPropertyCalendar has refused a property that has a stored icalUrl and
\* syncEnabled = false
C9_Witness ==
  \E t \in Tasks :
    LET k == tasks[t]
    IN  /\ k.op = "stored"
        /\ k.pc = "done"
        /\ k.prop \in Props
        /\ properties[k.prop].icalUrl # NULL
        /\ ~properties[k.prop].syncEnabled
        /\ k.result.errors = <<ErrNotEnabled>>
        /\ ~k.result.success

\* C10 (structured result always): syncPropertyCalendarWithUrl,
\* syncPropertyCalendar and syncAllProperties hand their caller a SyncResult
\* (or a list of them) and never throw, whichever fetch, parse or
\* persistence call fails.
C10_NeverThrows ==
  \A t \in Tasks :
    tasks[t].pc = "done" => ~tasks[t].threw

\* C11 (lastSyncAt after reconciliation): a pass of
\* syncPropertyCalendarWithUrl that resolved its property and fetched and
\* parsed the calendar always reaches the UPDATE of last_sync_at, whether
\* zero, some or all of its events recorded an error: it ends either with
\* the property's lastSyncAt set to the instant of this pass (the UPDATE
\* resolved), or with the "Sync failed" error of the rejected UPDATE as its
\* last error and no completion message.
C11_LastSyncAtWritten ==
  \A t \in Tasks :
    LET k == tasks[t]
        errs == k.result.errors
    IN  (k.op = "url" /\ k.pc = "done" /\ k.fetched) =>
          /\ Len(k.trace) = Len(k.events)
          /\ \/ /\ k.result.message # <<>>
                /\ properties[k.prop].lastSyncAt = ops + apiWrites
             \/ /\ k.result.message = <<>>
                /\ errs # <<>>
                /\ errs[Len(errs)] = ErrSyncFailed("db")

\* a pass all of whose events recorded an error has written lastSyncAt
C11_Witness ==
  \E t \in Tasks :
    LET k == tasks[t]
    IN  /\ k.op = "url"
        /\ k.pc = "done"
        /\ k.fetched
        /\ k.events # <<>>
        /\ Len(k.result.errors) = Len(k.events)
        /\ ~k.result.success
        /\ k.result.message # <<>>
        /\ properties[k.prop].lastSyncAt = ops + apiWrites
        /\ k.prev = NoPass

\* the SyncResult is consistent: success exactly when no error is recorded
Consistent(result) == result.success <=> (result.errors = <<>>)

\* C12 (success flag consistency): every SyncResult that
\* syncPropertyCalendarWithUrl or syncPropertyCalendar returns, alone or in
\* the list of syncAllProperties, has success = true if and only if its
\* errors list is empty, on every path: property not found, sync not
\* enabled, fetch failure, per-event errors, rejected UPDATE of last_sync_at,
\* clean run.
C12_SuccessIffNoErrors ==
  \A t \in Tasks :
    LET k == tasks[t]
    IN  /\ (k.pc = "done" /\ k.op \in {"url", "stored"}) =>
             Consistent(k.result)
        /\ \A i \in DOMAIN k.results : Consistent(k.results[i])

\* syncPropertyCalendar has returned after a pass that created a booking and
\* whose UPDATE of last_sync_at was rejected
C12_Witness ==
  \E t \in Tasks :
    LET k == tasks[t]
        errs == k.result.errors
    IN  /\ k.op = "stored"
        /\ k.pc = "done"
        /\ k.fetched
        /\ k.result.bookingsCreated > 0
        /\ errs = <<ErrSyncFailed("db")>>
        /\ ~k.result.success

\* C13 (malformed content fails the sync): when the body fetched is not
\* calendar data (it has no BEGIN:VCALENDAR line), the pass ends with
\* success = false and a recorded error, and it creates and updates no
\* booking.
C13_MalformedFails ==
  \A t \in Tasks :
    LET k == tasks[t]
    IN  (k.op = "url" /\ k.pc = "done" /\ k.fetched /\ ~k.marker) =>
          /\ ~k.result.success
          /\ k.result.errors # <<>>
          /\ k.result.bookingsCreated = 0
          /\ k.result.bookingsUpdated = 0

TestOps == {"test", "testroute"}

\* C14 (testUrl has no persistent effect): every step of testCalendarUrl and
\* of POST /test-url, whatever the URL and whatever the fetch does, leaves
\* the bookings and the calendar settings of every property (icalUrl,
\* syncEnabled, lastSyncAt) unchanged and does not throw; when the fetch or
\* the parse fails, the caller gets valid = false with an error message.
C14_TestUrlNoEffect ==
  [][\A t \in Tasks :
       ((tasks[t].op \in TestOps \/ tasks'[t].op \in TestOps)
          /\ tasks'[t] # tasks[t]) =>
         /\ bookings' = bookings
         /\ properties' = properties
         /\ ~tasks'[t].threw
         /\ faults' > faults =>
              /\ tasks'[t].pc = "done"
              /\ ~tasks'[t].test.valid
              /\ tasks'[t].test.eventCount = 0
              /\ tasks'[t].test.error # NoText
    ]_vars

\* testCalendarUrl has returned valid = false after a failed fetch, with
\* bookings and a lastSyncAt in the tables
C14_Witness ==
  \E t \in Tasks :
    LET k == tasks[t]
    IN  /\ k.op = "test"
        /\ k.pc = "done"
        /\ ~k.fetched
        /\ ~k.threw
        /\ ~k.test.valid
        /\ k.test.error # NoText
        /\ bookings # <<>>
        /\ \E p \in Props : properties[p].lastSyncAt # NoDate

\* C15 (scheduler start is idempotent): at most one cron task is armed at
\* any time and, while stop() has not been called, at most one initial sync
\* pass has been run, under any interleaving of start() calls.
C15_StartIdempotent ==
  /\ Cardinality(scheduler.armed) <= 1
  /\ ~scheduler.stopCalled => scheduler.initialSyncs <= 1

\* C16 (scheduler stop is effective): when stop() has been called and
\* start() has not been called after it, the scheduler is stopped and no
\* cron task is armed, so that no scheduled pass can begin.
C16_StopEffective ==
  scheduler.lastCall = "stop" =>
    /\ ~scheduler.isRunning
    /\ scheduler.armed = {}

\* C17 (booking conflict prevention): no two bookings of one property whose
\* status is neither cancelled nor no_show have overlapping stays
\* (checkIn of each before checkOut of the other), whatever bookings
\* POST /api/bookings and the sync passes have created.
C17_NoOverlap ==
  \A i, j \in DOMAIN bookings :
    (/\ i < j
     /\ bookings[i].propertyId = bookings[j].propertyId
     /\ bookings[i].bookingStatus \notin {"cancelled", "no_show"}
     /\ bookings[j].bookingStatus \notin {"cancelled", "no_show"}) =>
      ~(/\ bookings[i].checkInDate < bookings[j].checkOutDate
        /\ bookings[j].checkInDate < bookings[i].checkOutDate)

\* the outcome of extractGuestInfo for a summary '<lead> - <N> guests'
\* without closure word: the lead as name, N guests, no placeholder
NamedGuests(a, out) ==
  /\ out.name = Trim(a.lead)
  /\ out.guests = ParseInt(a.count)
  /\ ~out.isPlaceholder

\* the outcome of extractGuestInfo for a summary with a closure word
BlockedPeriod(out) ==
  /\ out.name = NameBlockedPeriod
  /\ out.guests = 1
  /\ out.isPlaceholder

\* C18 (placeholder classification): for every summary that contains
\* closed, blocked, unavailable or not available in any letter case,
\* extractGuestInfo returns the name "Blocked Period - Please Update",
\* 1 guest and isPlaceholder = true, whatever the rest of the summary; for a
\* summary '<name> - <N> guests' without closure word, where the name is
\* letters and spaces with at least one letter and at most 50 characters
\* once trimmed and N >= 1, it returns the trimmed name, N guests and
\* isPlaceholder = false.
C18_Classification ==
  (probe.fn = "extractGuestInfo" /\ probe.called) =>
    LET a == probe.arg
    IN  /\ a.word # NoText => BlockedPeriod(probe.out)
        /\ (/\ a.word = NoText
            /\ a.count # NoText
            /\ Trim(a.lead) # NoText
            /\ Len(Trim(a.lead)) <= NameMaxLen
            /\ ParseInt(a.count) >= 1) => NamedGuests(a, probe.out)

\* C18 as stated, for any name of letters and spaces and any N
C18_AnyNameAnyCount ==
  (probe.fn = "extractGuestInfo" /\ probe.called) =>
    LET a == probe.arg
    IN  /\ a.word # NoText => BlockedPeriod(probe.out)
        /\ (/\ a.word = NoText
            /\ a.count # NoText
            /\ Trim(a.lead) # NoText) => NamedGuests(a, probe.out)

\* extractGuestInfo has returned the name "Jo Al" with 12 guests for
\* "Jo Al - 12 guests"
C18_Witness ==
  /\ probe.fn = "extractGuestInfo"
  /\ probe.called
  /\ probe.arg.word = NoText
  /\ probe.arg.lead = <<"J","o"," ","A","l">>
  /\ probe.arg.count = <<"1","2">>
  /\ probe.out.name = <<"J","o"," ","A","l">>
  /\ probe.out.guests = 12
  /\ ~probe.out.isPlaceholder

\* the event entries of a calendar, and those with uid, start and end
EventEntries(body) == {i \in DOMAIN body : body[i].type = "VEVENT"}
CompleteEntries(body) ==
  {i \in EventEntries(body) :
     /\ body[i].uid # NoUid
     /\ body[i].start # NoDate
     /\ body[i].end # NoDate}

\* the parser returned exactly the complete event entries of the calendar,
\* each with its fields (an absent summary reads "Booking")
ExactlyComplete(body, out) ==
  /\ Len(out) = Cardinality(CompleteEntries(body))
  /\ \A i \in CompleteEntries(body) :
       \E j \in DOMAIN out :
         /\ out[j].uid = body[i].uid
         /\ out[j].start = body[i].start
         /\ out[j].end = body[i].end
         /\ out[j].description = body[i].description
         /\ out[j].summary = IF body[i].summary = NoText
                             THEN SummaryBooking ELSE body[i].summary
  /\ \A j \in DOMAIN out : out[j].uid # NoUid
  /\ EventEntries(body) = {} => out = <<>>

\* C19 (parser partial-failure isolation): for a calendar of N event
\* entries with pairwise distinct uids, k of which lack a uid, start or end,
\* parseICalData returns exactly the N-k complete events with their fields
\* unaffected; a calendar without event entries yields the empty list, and
\* every returned event has a non-empty uid.
C19_ParserIsolation ==
  (probe.fn = "parseICalData" /\ probe.called /\ ~RepeatsUid(probe.arg)) =>
    ExactlyComplete(probe.arg, probe.out)

\* C19 as stated, for any calendar
C19_AnyCalendar ==
  (probe.fn = "parseICalData" /\ probe.called) =>
    ExactlyComplete(probe.arg, probe.out)

\* parseICalData has returned one event for a calendar of two event
\* entries, one of which lacks its start
C19_Witness ==
  /\ probe.fn = "parseICalData"
  /\ probe.called
  /\ Cardinality(EventEntries(probe.arg)) = 2
  /\ Cardinality(CompleteEntries(probe.arg)) = 1
  /\ \E i \in DOMAIN probe.arg :
       probe.arg[i].uid # NoUid /\ probe.arg[i].start = NoDate
  /\ Len(probe.out) = 1

\* C20 (overlapping syncs of one property race): the create of
\* processCalendarEvent acts on what its lookup saw, with no lock and no
\* second look: every step that inserts a booking for (propertyId, uid)
\* follows a lookup that found no booking with that key, and whatever
\* booking with that key is in the table by then was inserted after that
\* lookup, by the other pass.  Two passes in progress together on the same
\* property can therefore leave two bookings for one (propertyId,
\* externalId).
C20_ReadThenWrite ==
  [][\A t \in Tasks :
       LET k == tasks[t]
       IN  (/\ k.pc = "u_write"
            /\ tasks'[t] # k
            /\ Len(bookings') = Len(bookings) + 1) =>
             /\ k.existing = 0
             /\ bookings'[Len(bookings')].propertyId = k.prop
             /\ bookings'[Len(bookings')].externalId = k.events[k.idx].uid
             /\ \A id \in DOMAIN bookings :
                  (/\ bookings[id].propertyId = k.prop
                   /\ bookings[id].externalId = k.events[k.idx].uid) =>
                    id > k.seen
    ]_vars

\* two passes on the same property are in progress together, each has
\* created a booking for the same event, and the table holds two bookings
\* with that (propertyId, externalId)
C20_Witness ==
  /\ tasks["t1"].op = "url"
  /\ tasks["t2"].op = "url"
  /\ tasks["t1"].prop = tasks["t2"].prop
  /\ tasks["t1"].trace = <<"created">>
  /\ tasks["t2"].trace = <<"created">>
  /\ tasks["t1"].events[1].uid = tasks["t2"].events[1].uid
  /\ \E i, j \in DOMAIN bookings :
       /\ i < j
       /\ bookings[i].propertyId = tasks["t1"].prop
       /\ bookings[j].propertyId = tasks["t1"].prop
       /\ bookings[i].externalId = tasks["t1"].events[1].uid
       /\ bookings[j].externalId = tasks["t1"].events[1].uid

\* the sync-all passes of the scheduler in progress
ScheduledPasses ==
  {t \in Tasks : tasks[t].op = "all" /\ tasks[t].by \in {"start", "cron"}}

\* C21 (scheduler passes never overlap): with start() having run a single
\* initial pass, at no time are two sync-all passes of the scheduler in
\* progress together.
C21_PassesNeverOverlap ==
  scheduler.initialSyncs <= 1 => Cardinality(ScheduledPasses) <= 1

\* C22 (scheduler start ordering): a cron task is armed, and the scheduler
\* becomes running, only by a start() whose initial sync-all pass is over
\* (it has returned or thrown), and a start() whose initial pass is over can
\* always go on to arm, also when the pass has thrown.
C22_ArmsAfterInitialPass ==
  [][/\ \A t \in Tasks :
          (tasks[t].by = "start" /\ tasks[t].pc = "done") =>
            ENABLED ArmTimer(t)
     /\ ((scheduler'.isRunning /\ ~scheduler.isRunning)
           \/ scheduler'.armed \ scheduler.armed # {}) =>
          \E t \in Tasks :
            /\ tasks[t].by = "start"
            /\ tasks[t].pc = "done"
            /\ tasks'[t] = IdleTask
            /\ scheduler'.isRunning
            /\ scheduler'.task \in scheduler'.armed
    ]_vars

\* the scheduler is running with a cron task armed by a start() whose
\* initial sync-all pass had thrown
C22_Witness ==
  /\ scheduler.isRunning
  /\ scheduler.armed # {}
  /\ scheduler.initialThrew
  /\ scheduler.initialSyncs = 1

\* what a finished pass k of syncPropertyCalendarWithUrl leaves when it runs
\* alone, given the bookings of its property at its start (keysStart), its
\* events and the calls that were rejected: an event is created exactly
\* when its property had no booking with its uid, updated exactly when it
\* had one, rejected when its range is invalid; the bookings written carry
\* the event, those not written are not there; the counters count the
\* trace, and lastSyncAt is set when the pass completed
SoloOutcome(k, db, props) ==
  (k.op = "url" /\ k.pc = "done" /\ k.fetched) =>
    /\ Len(k.trace) = Len(k.events)
    /\ \A i \in DOMAIN k.events :
         LET e == k.events[i]
             had == \E id \in DOMAIN k.keysStart :
                      k.keysStart[id] =
                        [propertyId |-> k.prop, externalId |-> e.uid]
             rows == {id \in DOMAIN db :
                        /\ db[id].propertyId = k.prop
                        /\ db[id].externalId = e.uid}
         IN  /\ k.trace[i] = "created" => (~had /\ Cardinality(rows) = 1)
             /\ k.trace[i] = "updated" => (had /\ rows # {})
             /\ k.trace[i] = "invalid" <=>
                  (Nights(e) <= 0 /\ k.trace[i] # "threw")
             /\ k.trace[i] \in {"created", "updated"} =>
                  \A id \in rows :
                    /\ db[id].checkInDate = e.start
                    /\ db[id].checkOutDate = e.end
                    /\ db[id].guestName = extractGuestInfo(e).name
             /\ (k.trace[i] \in {"invalid", "threw"} /\ ~had) =>
                  rows = {}
    /\ k.result.bookingsCreated = Count(k.trace, "created")
    /\ k.result.bookingsUpdated = Count(k.trace, "updated")
    /\ k.result.success <=>
         (k.result.message # <<>>
            /\ \A i \in DOMAIN k.trace :
                 k.trace[i] \in {"created", "updated"})
    /\ k.result.message # <<>> => props[k.prop].lastSyncAt # NoDate

\* C23 (concurrent syncs of different properties are safe): when a sync of
\* p1 and a sync of p2 interleave in any way, no step of one changes a
\* booking or the lastSyncAt of the other's property, and each pass ends
\* with the bookings, the lastSyncAt and the SyncResult it would have left
\* running alone (row ids and the instants written aside).
C23_DifferentPropertiesSafe ==
  [][\A t \in Tasks :
       /\ (tasks'[t] # tasks[t] /\ tasks[t].op = "url") =>
            /\ \A id \in DOMAIN bookings :
                 bookings[id].propertyId # tasks[t].prop =>
                   bookings'[id] = bookings[id]
            /\ \A p \in Props \ {tasks[t].prop} :
                 properties'[p] = properties[p]
       /\ SoloOutcome(tasks'[t], bookings', properties')
    ]_vars

\* both passes are over, each has created a booking for the same uid while
\* the other was in progress, and each property has its own booking
C23_Witness ==
  /\ tasks["t1"].pc = "done"
  /\ tasks["t2"].pc = "done"
  /\ tasks["t1"].trace = <<"created">>
  /\ tasks["t2"].trace = <<"created">>
  /\ tasks["t1"].events[1].uid = tasks["t2"].events[1].uid
  /\ tasks["t1"].seen = 0
  /\ tasks["t2"].seen = 0
  /\ Len(bookings) = 2
  /\ bookings[1].propertyId # bookings[2].propertyId
  /\ properties["p1"].lastSyncAt # NoDate
  /\ properties["p2"].lastSyncAt # NoDate

\* C24 (placeholder marker follows the event): whenever a pass creates or
\* updates a booking from an event that extractGuestInfo classifies as a
\* placeholder, the booking written carries the "[PLACEHOLDER]" marker in
\* its internalNotes.
C24_MarkerFollowsEvent ==
  [][\A t \in Tasks :
       LET k == tasks[t]
       IN  (/\ k.pc = "u_write"
            /\ bookings' # bookings
            /\ extractGuestInfo(k.events[k.idx]).isPlaceholder)
           => \A id \in DOMAIN bookings' :
                (id \notin DOMAIN bookings \/ bookings'[id] # bookings[id])
                => bookings'[id].internalNotes[1] = NotePlaceholder
    ]_vars

\* C25 (guest count independent of the name logic): for every summary that
\* holds "<N> guests", extractGuestInfo returns guests = max(1, N), whether
\* the summary holds a closure keyword, an accepted name or neither.
C25_GuestCountAnyBranch ==
  (/\ probe.fn = "extractGuestInfo"
   /\ probe.called
   /\ probe.arg.count # NoText)
  => probe.out.guests = Max(1, ParseInt(probe.arg.count))

\* C26 (absent summary yields a placeholder): an event that parseICalData
\* returns for a calendar entry without a summary is classified by
\* extractGuestInfo as a placeholder with the fixed generic guest name, and
\* the booking created from it carries the "[PLACEHOLDER]" marker.
C26_AbsentSummaryPlaceholder ==
  probe.fn = "processCalendarEvent" =>
    \A i \in DOMAIN probe.arg :
      probe.arg[i].uid = "u5" =>
        /\ extractGuestInfo(probe.arg[i]).isPlaceholder
        /\ extractGuestInfo(probe.arg[i]).name = NameCalendarReservation
        /\ probe.out[i].guestName = NameCalendarReservation
        /\ probe.out[i].internalNotes[1] = NotePlaceholder

\* icalUrl and syncEnabled of every property
SyncConfiguration(props) ==
  [p \in Props |-> [icalUrl |-> props[p].icalUrl,
                    syncEnabled |-> props[p].syncEnabled]]

\* C27 (sync does not alter the sync configuration): no step of a sync
\* operation changes the icalUrl or the syncEnabled of any property; the two
\* fields change only in a call of updateCalendarSettings, and a sync with
\* an explicit URL does not store that URL.
C27_SyncKeepsConfiguration ==
  [][SyncConfiguration(properties') # SyncConfiguration(properties)
       => (apiWrites' = apiWrites + 1 /\ tasks' = tasks)
    ]_vars

\* a sync with an explicit URL of a property that has no stored icalUrl has
\* completed, and the property still has none
C27_Witness ==
  \E t \in Tasks :
    LET k == tasks[t]
    IN  /\ k.op = "url"
        /\ k.pc = "done"
        /\ k.result.success
        /\ k.url # NULL
        /\ properties[k.prop].icalUrl = NULL
        /\ properties[k.prop].lastSyncAt # NoDate

\* C28 (updateCalendarSettings is a partial update): a call with syncEnabled
\* omitted leaves the stored syncEnabled as it is, a call with icalUrl
\* omitted leaves the stored icalUrl as it is, and no call changes
\* lastSyncAt.
C28_PartialUpdate ==
  [][\A p \in Props, in \in SettingsInputs :
       UpdateSettings(p, in[1], in[2], in[3], in[4])
       => /\ ~in[1] => properties'[p].icalUrl = properties[p].icalUrl
          /\ ~in[3] => properties'[p].syncEnabled = properties[p].syncEnabled
          /\ properties'[p].lastSyncAt = properties[p].lastSyncAt
    ]_vars

\* the errors of a SyncResult that name an event
PerEventErrors(errors) ==
  {i \in DOMAIN errors :
     errors[i][1] \in {ErrInvalidRange("")[1], ErrProcessing("")[1]}}

\* C29 (per-event accounting): in every finished pass that fetched and
\* parsed its calendar, bookingsCreated + bookingsUpdated + the number of
\* per-event errors equals the number of parsed events, each event counting
\* once; bookingsSkipped is 0 in every SyncResult.
C29_PerEventAccounting ==
  \A t \in Tasks :
    LET k == tasks[t]
        res == k.result
    IN  /\ res.bookingsSkipped = 0
        /\ \A i \in DOMAIN k.results : k.results[i].bookingsSkipped = 0
        /\ (k.op \in {"url", "stored"} /\ k.pc = "done" /\ k.fetched)
           => /\ res.bookingsCreated + res.bookingsUpdated
                   + Cardinality(PerEventErrors(res.errors)) = Len(k.events)
              /\ Len(k.trace) = Len(k.events)
              /\ res.bookingsCreated = Count(k.trace, "created")
              /\ res.bookingsUpdated = Count(k.trace, "updated")
              /\ Cardinality(PerEventErrors(res.errors))
                   = Count(k.trace, "invalid") + Count(k.trace, "threw")

\* a finished pass over two events has counted one as created and recorded
\* an error for the other
C29_Witness ==
  \E t \in Tasks :
    LET k == tasks[t]
    IN  /\ k.op = "url"
        /\ k.pc = "done"
        /\ k.fetched
        /\ Len(k.events) = 2
        /\ k.result.bookingsCreated = 1
        /\ Cardinality(PerEventErrors(k.result.errors)) = 1

\* C30 (sync touches only its own bookings): a step of a sync pass for
\* property P that writes the bookings either changes one booking or adds
\* one, and that booking has propertyId = P and as externalId the uid of the
\* event being processed; every booking of another property, and every
\* booking of P whose externalId is null or is no uid of the pass (bookings
\* created through POST /api/bookings among them), stays as it is.  So the
\* same uid synced for two properties gives two bookings, one per property.
C30_OnlyOwnBookings ==
  [][\A t \in Tasks :
       LET k == tasks[t]
       IN  tasks'[t] # k =>
             /\ DOMAIN bookings \subseteq DOMAIN bookings'
             /\ Len(bookings') <= Len(bookings) + 1
             /\ \A id \in DOMAIN bookings :
                  (\/ bookings[id].propertyId # k.prop
                   \/ bookings[id].externalId = NoUid
                   \/ bookings[id].externalId \notin EventUids(k.events))
                  => bookings'[id] = bookings[id]
             /\ \A id \in DOMAIN bookings' :
                  (id \notin DOMAIN bookings \/ bookings'[id] # bookings[id])
                  => /\ k.pc = "u_write"
                     /\ bookings'[id].propertyId = k.prop
                     /\ bookings'[id].externalId = k.events[k.idx].uid
                     /\ \A other \in DOMAIN bookings \ {id} :
                          bookings'[other] = bookings[other]
    ]_vars

\* the same uid has been synced for two properties, one of which also has a
\* booking made through POST /api/bookings: there are two calendar bookings
\* with that uid, one per property, and the API booking is as it was made
C30_Witness ==
  \E a, b, c \in DOMAIN bookings :
    /\ bookings[a].externalId = NoUid
    /\ bookings[a] = ApiBooking(bookings[a].propertyId,
                                bookings[a].checkInDate,
                                bookings[a].checkOutDate,
                                bookings[a].updatedAt)
    /\ bookings[b].externalId # NoUid
    /\ bookings[c].externalId = bookings[b].externalId
    /\ bookings[b].propertyId = bookings[a].propertyId
    /\ bookings[c].propertyId # bookings[b].propertyId
    /\ a < b
    /\ b < c
    /\ \A t \in Tasks : tasks[t].pc \in {"idle", "done"}

====
